---- MODULE Spec2Model ----
(***************************************************************************)
(* The conversation session controller of the library assistant            *)
(* (LibraryAIAssistant in src/src/components/QuizModal.tsx, with           *)
(* TavusService in src/src/data/storyData.ts).                             *)
(*                                                                         *)
(* The component is single-threaded: every action below is one run of the  *)
(* event loop, from a click, a timer callback, a transport event or the    *)
(* settling of an awaited promise, up to the next await or the return.     *)
(* An async function in flight is a task that remembers the await it is    *)
(* suspended at.  `await` of a value that is not a promise                 *)
(* (setLocalVideo, an async function that returned without suspending)     *)
(* resumes in the same run, so it is not a suspension point.               *)
(*                                                                         *)
(* Time is the clock setTimeout reads, in milliseconds.  It advances by    *)
(* jumping to the next pending due time, so a timer fires at its due time  *)
(* and clicks, events and network completions happen between firings.      *)
(***************************************************************************)
EXTENDS Integers, Sequences, FiniteSets, TLC

\* Number of initializeAIAssistant runs that reach the provider (sessions).
MaxStarts == 2
\* Number of clicks on the restart button.
MaxRestarts == 2
\* Number of raw events the transport delivers to the data listeners.
MaxEvents == 2
\* Number of tool calls dispatched in a row.
MaxDispatches == 2
\* Number of tool calls dispatched in a row where the history has to fill up.
MaxHistoryDispatches == 7
\* Number of toggleMute runs that may wait for the transport at a time.
MaxMuteRuns == 1
\* Number of 2-second timeouts of the multiple-choice question that may be pending.
MaxTransitions == 3
\* Length up to which every catalog is tried, and length of the long catalogs.
MaxShortCatalog == 3
MaxCatalog == 7

\* src/src/components/QuizModal.tsx:874-876, 1481
CONVERSATION_DURATION == 60000
WRAP_UP_TIME == 45000
FINAL_WARNING_TIME == 55000
RESTART_DELAY == 1000
\* The delay setTimeout takes when no delay is passed (lines 952-954).
DEFAULT_DELAY == 0
\* null of callObjectRef, conversationIdRef and conversation (lines 767, 782, 783).
Null == 0

\* Conversations are numbered in the order they are requested; the call object
\* a start creates carries the number of its conversation.
Sessions == 1..MaxStarts
\* The awaits a cleanupConversation run can be suspended at, and its callers.
CleanupAwaits == {"leave", "end"}
Origins == {"restart", "timer", "unmount"}

VARIABLES
    apiKey, replicaId, personaId,   \* import.meta.env (fixed at build time)
    dailyLoaded,                    \* window.Daily is present
    mounted,                        \* the component is mounted
    isOpen, isConnected, isConnecting, conversation, error, replicaConnected,
    callObjectRef, conversationIdRef,
    now, timers,
    cleaning,                       \* cleanupConversation runs in flight, per await and caller
    nextReq,                        \* next conversation / call object number
    calls,                          \* the call objects created so far
    sess,                           \* each start and its session: progress, provider side, times
    restarts,                       \* clicks on the restart button so far
    stopHist,                       \* log: stops in succession on one session
    typeErrors,                     \* log: a teardown dereferenced a released call object
    books,                          \* the catalog (a prop of the component)
    lastToolCall, toolCallHistory,
    naturalResponseCount, restrictedResponseCount,
    dispatchStatus,                 \* the status text executeToolCall / handleTavusEvent set last
    filterChanges,                  \* log: the arguments of the calls of onFilterChange
    recommendations,                \* log: the arguments of the calls of onBookRecommendation
    executed,                       \* log: the tool calls executed for the last raw event
    rawEvent,                       \* the last raw event of the transport, and its name
    handlerRuns,                    \* log: runs of handleTavusEvent for the last raw event
    delivered,                      \* number of raw events / tool calls handled so far
    isMuted, isVolumeOn,
    muting,                         \* toggleMute runs in flight: the muted state each will set
    sink,                           \* videoRef.current.srcObject: whose tracks it plays
    sinkMuted,                      \* videoRef.current.muted
    participants,                   \* callObject.participants() as of the last media event
    statusSet,                      \* log: the last run called setConnectionStatus
    uncaught,                       \* log: the last run ended by an exception nobody caught
    sendLog,                        \* log: how the last sendAppMessage of a warning ended
    quizModal                       \* the state of the QuizModal component, and its logs

\* The session controller's variables, and the event pipeline's.
svars == << apiKey, replicaId, personaId, dailyLoaded, mounted, isOpen, isConnected,
            isConnecting, conversation, error, replicaConnected, callObjectRef,
            conversationIdRef, now, timers, cleaning, nextReq, calls, sess,
            restarts, stopHist, typeErrors, sink >>

dvars == << books, lastToolCall, toolCallHistory, naturalResponseCount,
            restrictedResponseCount, dispatchStatus, filterChanges, recommendations,
            executed, rawEvent, handlerRuns, delivered >>

\* The dispatcher's variables that no session handler writes.
dkept == << books, lastToolCall, toolCallHistory, dispatchStatus, filterChanges,
            recommendations, executed, rawEvent, handlerRuns, delivered >>

media == << isMuted, isVolumeOn, muting, sinkMuted, participants >>

\* The variables no session handler and no dispatcher writes.
aside == << media, sendLog, quizModal >>

mvars == << aside, statusSet, uncaught >>

vars == << svars, dvars, mvars >>

\* The mutable state as one record, so that a handler is a function on it.
Cur ==
    [ mounted |-> mounted, isOpen |-> isOpen, isConnected |-> isConnected,
      isConnecting |-> isConnecting, conversation |-> conversation, error |-> error,
      replicaConnected |-> replicaConnected, callObjectRef |-> callObjectRef,
      conversationIdRef |-> conversationIdRef, now |-> now, timers |-> timers,
      cleaning |-> cleaning, nextReq |-> nextReq, calls |-> calls,
      sess |-> sess, restarts |-> restarts, stopHist |-> stopHist, typeErrors |-> typeErrors,
      naturalResponseCount |-> naturalResponseCount,
      restrictedResponseCount |-> restrictedResponseCount,
      sink |-> sink, statusSet |-> FALSE ]

\* The video element is rendered while the panel shows a connected session
\* (lines 1590-1623); an element that is rendered anew has no stream.
VideoShown(s) ==
    s.mounted /\ s.isOpen /\ s.error = "none" /\ ~s.isConnecting /\ s.isConnected

CommitSession(s) ==
    /\ mounted' = s.mounted
    /\ isOpen' = s.isOpen
    /\ isConnected' = s.isConnected
    /\ isConnecting' = s.isConnecting
    /\ conversation' = s.conversation
    /\ error' = s.error
    /\ replicaConnected' = s.replicaConnected
    /\ callObjectRef' = s.callObjectRef
    /\ conversationIdRef' = s.conversationIdRef
    /\ now' = s.now
    /\ timers' = s.timers
    /\ cleaning' = s.cleaning
    /\ nextReq' = s.nextReq
    /\ calls' = s.calls
    /\ sess' = s.sess
    /\ restarts' = s.restarts
    /\ stopHist' = s.stopHist
    /\ typeErrors' = s.typeErrors
    /\ naturalResponseCount' = s.naturalResponseCount
    /\ restrictedResponseCount' = s.restrictedResponseCount
    /\ sink' = IF VideoShown(s) THEN s.sink ELSE [video |-> "none", audio |-> "none"]
    /\ UNCHANGED << apiKey, replicaId, personaId, dailyLoaded >>

\* A run of the session controller, which leaves the dispatcher and the media
\* alone; the session specification does not follow the status log.
Commit(s) ==
    /\ CommitSession(s)
    /\ UNCHANGED dkept
    /\ UNCHANGED mvars

\* A React state update: dropped once the component is unmounted.
UI(s, upd) == IF s.mounted THEN upd ELSE s

\* The participants of a call, in the order participants() lists them: the
\* local user first.  A track is "playable", "loading" or "off".
Track(video, audio) == [video |-> video, audio |-> audio]
LocalOnly == << [id |-> "local", tracks |-> Track("off", "playable")] >>
NoStream == [video |-> "none", audio |-> "none"]

NoStop == [conv |-> Null, n |-> 0, run |-> FALSE]
NoCall == [made |-> FALSE, destroyed |-> FALSE, leaveCalls |-> 0]
\* create: "none", "req" (request in flight), "fail", "ok" (exists at the provider);
\* start: "none", "pending" (initializeAIAssistant in flight), "joined", "failed".
NoSess == [create |-> "none", start |-> "none", endCalls |-> 0]

\* The await an initializeAIAssistant run is suspended at.
InitAt(s, c) ==
    IF s.sess[c].start # "pending" THEN "none"
    ELSE IF s.sess[c].create = "req" THEN "create" ELSE "join"

StartsInFlight(s) == {c \in Sessions : s.sess[c].start = "pending"}
CleanupsInFlight(s) ==
    {k \in CleanupAwaits \X Origins : s.cleaning[k] > 0}

(***************************************************************************)
(* Transport events are untyped JavaScript values.  A value carries its    *)
(* type: undefined, null, a string, a number, an object (a function from   *)
(* its keys to values) or an array (a sequence of values).                 *)
(***************************************************************************)
Undefined == [t |-> "undefined"]
JSNull == [t |-> "null"]
Str(s) == [t |-> "string", s |-> s]
Num(n) == [t |-> "number", n |-> n]
Obj(f) == [t |-> "object", f |-> f]
Arr(q) == [t |-> "array", q |-> q]
\* The outcome of an expression that throws.
Thrown == [t |-> "throw"]

\* v.k: undefined when v has no such property.
Get(v, k) == IF v.t = "object" /\ k \in DOMAIN v.f THEN v.f[k] ELSE Undefined

\* The truthiness of a value in a condition.
Truthy(v) ==
    CASE v.t \in {"undefined", "null"} -> FALSE
      [] v.t = "string" -> v.s # ""
      [] v.t = "number" -> v.n # 0
      [] OTHER -> TRUE

\* v === 'text'
IsStr(v, text) == v.t = "string" /\ v.s = text

\* String.prototype.includes
Includes(s, sub) ==
    \E i \in 1..(Len(s) - Len(sub) + 1) : SubSeq(s, i, i + Len(sub) - 1) = sub

LowerChar(c) ==
    CASE c = "A" -> "a" [] c = "B" -> "b" [] c = "C" -> "c" [] c = "D" -> "d"
      [] c = "E" -> "e" [] c = "F" -> "f" [] c = "G" -> "g" [] c = "H" -> "h"
      [] c = "I" -> "i" [] c = "J" -> "j" [] c = "K" -> "k" [] c = "L" -> "l"
      [] c = "M" -> "m" [] c = "N" -> "n" [] c = "O" -> "o" [] c = "P" -> "p"
      [] c = "Q" -> "q" [] c = "R" -> "r" [] c = "S" -> "s" [] c = "T" -> "t"
      [] c = "U" -> "u" [] c = "V" -> "v" [] c = "W" -> "w" [] c = "X" -> "x"
      [] c = "Y" -> "y" [] c = "Z" -> "z" [] OTHER -> c

\* String.prototype.toLowerCase
RECURSIVE ToLowerCase(_)
ToLowerCase(s) ==
    IF s = "" THEN ""
    ELSE LowerChar(SubSeq(s, 1, 1)) \o ToLowerCase(SubSeq(s, 2, Len(s)))

(***************************************************************************)
(* JSON.parse, on the texts a tool call's arguments come as: an object of  *)
(* string and non-negative integer members, without white space.  Any      *)
(* other text makes it throw.                                              *)
(***************************************************************************)
CharAt(s, i) == IF i >= 1 /\ i <= Len(s) THEN SubSeq(s, i, i) ELSE ""

Digits == {"0", "1", "2", "3", "4", "5", "6", "7", "8", "9"}

DigitValue(c) ==
    CASE c = "0" -> 0 [] c = "1" -> 1 [] c = "2" -> 2 [] c = "3" -> 3 [] c = "4" -> 4
      [] c = "5" -> 5 [] c = "6" -> 6 [] c = "7" -> 7 [] c = "8" -> 8 [] c = "9" -> 9

\* The position of the next double quote at or after i; 0 when there is none.
RECURSIVE QuoteFrom(_, _)
QuoteFrom(s, i) ==
    IF i > Len(s) THEN 0
    ELSE IF CharAt(s, i) = "\"" THEN i
    ELSE QuoteFrom(s, i + 1)

\* The position after the digits that start at i.
RECURSIVE DigitsEnd(_, _)
DigitsEnd(s, i) == IF CharAt(s, i) \in Digits THEN DigitsEnd(s, i + 1) ELSE i

RECURSIVE ParseInt(_)
ParseInt(s) ==
    IF s = "" THEN 0
    ELSE 10 * ParseInt(SubSeq(s, 1, Len(s) - 1)) + DigitValue(CharAt(s, Len(s)))

\* The value that starts at i and the position after it; throws when there
\* is neither a string nor a number.
ParseValue(s, i) ==
    IF CharAt(s, i) = "\""
    THEN IF QuoteFrom(s, i + 1) = 0 THEN Thrown
         ELSE [val |-> Str(SubSeq(s, i + 1, QuoteFrom(s, i + 1) - 1)),
               next |-> QuoteFrom(s, i + 1) + 1]
    ELSE IF DigitsEnd(s, i) > i
    THEN [val |-> Num(ParseInt(SubSeq(s, i, DigitsEnd(s, i) - 1))), next |-> DigitsEnd(s, i)]
    ELSE Thrown

\* f with the member key: val; a later member replaces an earlier one.
WithMember(f, key, val) == [k \in DOMAIN f \cup {key} |-> IF k = key THEN val ELSE f[k]]

\* The members of an object from position i on; f holds the members read so far.
RECURSIVE ParseMembers(_, _, _)

\* What follows a member: the end of the text, or a comma and more members.
AfterMember(s, next, f) ==
    IF CharAt(s, next) = "}" /\ next = Len(s) THEN Obj(f)
    ELSE IF CharAt(s, next) = "," THEN ParseMembers(s, next + 1, f)
    ELSE Thrown

ParsedMember(s, key, value, f) ==
    IF value = Thrown THEN Thrown
    ELSE AfterMember(s, value.next, WithMember(f, key, value.val))

\* A member whose key stands between the quotes at i and keyEnd.
ParseMember(s, i, keyEnd, f) ==
    IF keyEnd = 0 \/ CharAt(s, keyEnd + 1) # ":" THEN Thrown
    ELSE ParsedMember(s, SubSeq(s, i + 1, keyEnd - 1), ParseValue(s, keyEnd + 2), f)

ParseMembers(s, i, f) ==
    IF CharAt(s, i) # "\"" THEN Thrown
    ELSE ParseMember(s, i, QuoteFrom(s, i + 1), f)

JSONParse(s) ==
    IF s = "{}" THEN Obj(<<>>)
    ELSE IF CharAt(s, 1) = "{" THEN ParseMembers(s, 2, <<>>)
    ELSE Thrown

\* The text setConnectionStatus is given, as its kind and the count it shows.
Status(msg, count) == [msg |-> msg, count |-> count]

\* The dispatcher's state after construction (lines 772-778).
DispatcherInit ==
    /\ lastToolCall = << >>
    /\ toolCallHistory = << >>
    /\ dispatchStatus = Status("Ready", 0)
    /\ filterChanges = << >>
    /\ recommendations = << >>
    /\ executed = << >>
    /\ naturalResponseCount = 0
    /\ restrictedResponseCount = 0
    /\ rawEvent = [name |-> "", event |-> Undefined]
    /\ handlerRuns = 0
    /\ delivered = 0

(***************************************************************************)
(* QuizModal (lines 44-732)                                                *)
(***************************************************************************)
\* The state of the modal after construction (lines 46-64).  capture is the
\* captureImage run in flight, transitions the pending 2-second timeouts and
\* camerasPending the getCameras run of the showSpelling effect; answers and
\* pages log the calls of addQuizAnswer and nextPage; open: onClose was not
\* called; geminiKey: GeminiService.getApiKey() returns a key.
NoCapture == [stage |-> "none", score |-> 0, results |-> << >>]
QuizStart(key) ==
    [ score |-> 0, showScore |-> FALSE, spellingAnswer |-> "", inputMode |-> "camera",
      isProcessing |-> FALSE, ocrResults |-> << >>, capturedImage |-> FALSE,
      showLivePreview |-> FALSE, showMultipleChoice |-> TRUE, showSpelling |-> FALSE,
      isTransitioning |-> FALSE, selectedMultipleChoiceAnswer |-> "",
      finalSpellingAnswer |-> "",
      capture |-> NoCapture, transitions |-> 0, camerasPending |-> FALSE,
      answers |-> << >>, pages |-> 0, open |-> TRUE, geminiKey |-> key ]

QuizInit == quizModal = QuizStart(TRUE)

\* The media state after construction (lines 769-770, 781).
MediaInit ==
    /\ isMuted = FALSE
    /\ isVolumeOn = TRUE
    /\ muting = << >>
    /\ sinkMuted = FALSE
    /\ statusSet = FALSE
    /\ uncaught = FALSE
    /\ sendLog = "none"

(***************************************************************************)
(* TavusService                                                            *)
(***************************************************************************)
\* isConfigured (storyData.ts, lines 244-246)
IsConfigured == apiKey /\ replicaId

GetPersonaId == personaId

\* A checkLibraryPersona that never throws.
CheckLibraryPersona_NoThrow == TRUE
\* checkLibraryPersona returns true, or throws when no persona id is set.
CheckLibraryPersona == GetPersonaId

TypeOK ==
    /\ apiKey \in BOOLEAN /\ replicaId \in BOOLEAN /\ personaId \in BOOLEAN
    /\ dailyLoaded \in BOOLEAN /\ mounted \in BOOLEAN /\ isOpen \in BOOLEAN
    /\ isConnected \in BOOLEAN /\ isConnecting \in BOOLEAN
    /\ replicaConnected \in BOOLEAN
    /\ error \in {"none", "NotConfigured", "NoPersona", "StartFailed", "ConnectionError", "MuteError"}
    /\ conversation \in {Null} \cup Sessions
    /\ callObjectRef \in {Null} \cup Sessions
    /\ conversationIdRef \in {Null} \cup Sessions
    /\ nextReq \in 1..(MaxStarts + 1)

Init ==
    /\ apiKey \in BOOLEAN
    /\ replicaId \in BOOLEAN
    /\ personaId \in BOOLEAN
    /\ dailyLoaded \in BOOLEAN
    /\ mounted = TRUE
    /\ isOpen = FALSE
    /\ isConnected = FALSE
    /\ isConnecting = FALSE
    /\ conversation = Null
    /\ error = "none"
    /\ replicaConnected = FALSE
    /\ callObjectRef = Null
    /\ conversationIdRef = Null
    /\ now = 0
    /\ timers = {}
    /\ cleaning = [k \in CleanupAwaits \X Origins |-> 0]
    /\ nextReq = 1
    /\ calls = [c \in Sessions |-> NoCall]
    /\ sess = [c \in Sessions |-> NoSess]
    /\ restarts = 0
    /\ stopHist = NoStop
    /\ typeErrors = FALSE
    /\ sink = NoStream
    /\ participants = LocalOnly
    /\ books = << >>
    /\ DispatcherInit
    /\ MediaInit
    /\ QuizInit

(***************************************************************************)
(* initializeAIAssistant and joinConversation                              *)
(***************************************************************************)
\* The three setTimeout calls of lines 903-963; the second passes no delay.
\* A timer remembers the session the closure belongs to and when it was armed.
BudgetTimers(c, t) ==
    { [kind |-> "wrap", due |-> t + WRAP_UP_TIME, sess |-> c, at |-> t, n |-> 0],
      [kind |-> "final", due |-> t + DEFAULT_DELAY, sess |-> c, at |-> t, n |-> 0],
      [kind |-> "term", due |-> t + CONVERSATION_DURATION, sess |-> c, at |-> t, n |-> 0] }

\* The catch and finally blocks of initializeAIAssistant (lines 965-971).
StartFailed(s, c) ==
    LET s1 == UI(s, [s EXCEPT !.error = "StartFailed", !.isConnecting = FALSE])
    IN  [s1 EXCEPT !.sess[c].start = "failed", !.statusSet = TRUE]

\* The synchronous part of initializeAIAssistant, up to the await of
\* createLibraryConversation (lines 867-891).
InitializeAIAssistant(s) ==
    IF ~IsConfigured
    THEN UI(s, [s EXCEPT !.error = "NotConfigured"])
    ELSE IF ~CheckLibraryPersona
    THEN UI(s, [s EXCEPT !.error = "NoPersona", !.isConnecting = FALSE, !.statusSet = TRUE])
    ELSE LET c == s.nextReq
             s1 == UI(s, [s EXCEPT !.isConnecting = TRUE, !.error = "none",
                                   !.statusSet = TRUE])
         IN  [s1 EXCEPT !.nextReq = c + 1, !.sess[c].create = "req",
                        !.sess[c].start = "pending", !.stopHist = NoStop]

\* createLibraryConversation settled: lines 891-900 and joinConversation up to
\* the await of join (lines 974-994).
CreateSettled(s, c, ok) ==
    IF ~ok
    THEN StartFailed([s EXCEPT !.sess[c].create = "fail"], c)
    ELSE LET s1 == UI(s, [s EXCEPT !.conversation = c])
             s2 == [s1 EXCEPT !.conversationIdRef = c, !.sess[c].create = "ok"]
         IN  IF ~dailyLoaded
             THEN StartFailed(s2, c)
             ELSE [s2 EXCEPT !.callObjectRef = c, !.calls[c].made = TRUE]

JoinSettled_ArmsAlways(s, c, ok) ==
    LET s1 == IF ~ok \/ s.callObjectRef = Null
              THEN StartFailed(s, c)
              ELSE [UI(s, [s EXCEPT !.isConnected = TRUE, !.isConnecting = FALSE,
                                    !.statusSet = TRUE])
                      EXCEPT !.sess[c].start = "joined"]
    IN  [s1 EXCEPT !.timers = @ \cup BudgetTimers(c, s.now)]

\* join settled: the rest of joinConversation (lines 996-1007) and of
\* initializeAIAssistant (lines 902-971).  callObjectRef.current is read again
\* after the await; on null the call of setLocalVideo throws a TypeError.
JoinSettled(s, c, ok) ==
    IF ~ok \/ s.callObjectRef = Null
    THEN StartFailed(s, c)
    ELSE LET s1 == UI(s, [s EXCEPT !.isConnected = TRUE, !.isConnecting = FALSE,
                                   !.statusSet = TRUE])
         IN  [s1 EXCEPT !.timers = @ \cup BudgetTimers(c, s.now),
                        !.sess[c].start = "joined"]

(***************************************************************************)
(* cleanupConversation and its callers                                     *)
(***************************************************************************)
\* Log: a stop that begins on a joined session with nothing else in flight,
\* or right after such a stop has returned, is a stop "in succession".
StopBegins(s) ==
    IF StartsInFlight(s) # {} \/ CleanupsInFlight(s) # {}
    THEN NoStop
    ELSE IF /\ s.stopHist.n = 0
            /\ s.conversationIdRef # Null
            /\ s.callObjectRef = s.conversationIdRef
            /\ s.sess[s.conversationIdRef].start = "joined"
    THEN [conv |-> s.conversationIdRef, n |-> 0, run |-> TRUE]
    ELSE IF s.stopHist.n = 1
    THEN [s.stopHist EXCEPT !.run = TRUE]
    ELSE NoStop

\* Lines 840-850: the reset at the end of cleanupConversation.  The video
\* element is there while the component is mounted.
ResetState(s) ==
    LET s1 == UI(s, [s EXCEPT !.conversation = Null, !.isConnected = FALSE,
                              !.replicaConnected = FALSE, !.statusSet = TRUE,
                              !.sink = NoStream])
    IN  [s1 EXCEPT !.conversationIdRef = Null]

\* The timer of the next start, which restartConversation arms (lines 1479-1481).
RestartTimer(s) ==
    LET same == {tm \in s.timers : tm.kind = "restart" /\ tm.due = s.now + RESTART_DELAY}
    IN  [kind |-> "restart", due |-> s.now + RESTART_DELAY, sess |-> Null,
         at |-> s.now, n |-> Cardinality(same)]

\* cleanupConversation has returned (normally or through its catch): what its
\* caller does next.  restartConversation resets the response counters and arms
\* the timer of the next start (lines 1476-1481); the timer callback and the
\* unmount effect do nothing more.
CleanupReturns(s, origin) ==
    LET s1 == [s EXCEPT !.stopHist =
                   IF @.run THEN [@ EXCEPT !.n = @ + 1, !.run = FALSE] ELSE @]
        s2 == UI(s1, [s1 EXCEPT !.naturalResponseCount = 0,
                                !.restrictedResponseCount = 0])
    IN  IF origin = "restart"
        THEN [s2 EXCEPT !.timers = @ \cup {RestartTimer(s)}]
        ELSE s1

\* endConversation is called with the id read now (lines 836-838).
EndIssued(s, origin) ==
    [s EXCEPT !.sess[s.conversationIdRef].endCalls = @ + 1,
              !.cleaning[<<"end", origin>>] = @ + 1]

\* The synchronous part of cleanupConversation (lines 826-838).
CleanupConversation(s, origin) ==
    LET s0 == [s EXCEPT !.stopHist = StopBegins(s)]
    IN  IF s.callObjectRef # Null
        THEN [s0 EXCEPT !.calls[s.callObjectRef].leaveCalls = @ + 1,
                        !.cleaning[<<"leave", origin>>] = @ + 1]
        ELSE IF s.conversationIdRef # Null
        THEN EndIssued(s0, origin)
        ELSE CleanupReturns(ResetState(s0), origin)

\* leave settled (lines 830-838).  callObjectRef.current is read again: on
\* null, destroy() throws a TypeError, which the catch swallows.
LeaveSettled(s, origin, ok) ==
    LET done == [s EXCEPT !.cleaning[<<"leave", origin>>] = @ - 1]
    IN  IF ~ok
        THEN CleanupReturns(done, origin)
        ELSE IF s.callObjectRef = Null
        THEN CleanupReturns([done EXCEPT !.typeErrors = TRUE], origin)
        ELSE LET s1 == [done EXCEPT !.calls[s.callObjectRef].destroyed = TRUE,
                                    !.callObjectRef = Null]
             IN  IF s1.conversationIdRef # Null
                 THEN EndIssued(s1, origin)
                 ELSE CleanupReturns(ResetState(s1), origin)

\* endConversation settled (lines 837-853).
EndSettled(s, origin, ok) ==
    LET done == [s EXCEPT !.cleaning[<<"end", origin>>] = @ - 1]
    IN  IF ~ok
        THEN CleanupReturns(done, origin)
        ELSE CleanupReturns(ResetState(done), origin)

\* restartConversation (lines 1474-1482)
RestartConversation(s) == CleanupConversation(s, "restart")

\* handleOpen (lines 1466-1472)
HandleOpenHandler(s) ==
    LET s1 == [s EXCEPT !.isOpen = TRUE]
    IN  IF s.conversation = Null /\ ~s.isConnecting /\ ~s.isConnected
        THEN InitializeAIAssistant(s1)
        ELSE s1

\* The Retry button (lines 1596-1599)
RetryHandler(s) == InitializeAIAssistant([s EXCEPT !.error = "none"])

(***************************************************************************)
(* The budget timers (lines 902-963)                                       *)
(***************************************************************************)
\* Lines 904 and 932: the guard of both escalation callbacks, read at fire time.
CanSend(s) == s.callObjectRef # Null /\ s.conversationIdRef # Null

\* The soft warning (lines 903-928) and the hard warning (lines 931-954):
\* sendAppMessage on the current call object.  A message that is sent, or
\* that throws, changes nothing of the controller.
WrapUpCallback(s) == s

FinalWarningCallback(s) == s

\* The hard termination (lines 957-963).
TerminationCallback(s) ==
    IF s.conversationIdRef # Null
    THEN [CleanupConversation(s, "timer") EXCEPT !.statusSet = TRUE]
    ELSE s

(***************************************************************************)
(* The transport's event listeners (setupEventListeners, lines 1010-1091)  *)
(***************************************************************************)
\* A call object delivers events from createCallObject until destroy.
Live(s) == {c \in Sessions : s.calls[c].made /\ ~s.calls[c].destroyed}

\* updateReplicaVideo (lines 1346-1388); hasAV: some remote participant of the
\* current call object has both tracks playable.
UpdateReplicaVideo(s, hasAV) ==
    IF s.callObjectRef = Null
    THEN s
    ELSE IF hasAV
    THEN UI(s, [s EXCEPT !.replicaConnected = TRUE, !.isConnecting = FALSE,
                         !.statusSet = TRUE])
    ELSE UI(s, [s EXCEPT !.replicaConnected = FALSE, !.statusSet = TRUE])

\* 'participant-left' of a remote participant (lines 1031-1037)
OnParticipantLeft(s) == UI(s, [s EXCEPT !.replicaConnected = FALSE, !.statusSet = TRUE])

\* 'error' (lines 1039-1043)
OnError(s) == UI(s, [s EXCEPT !.error = "ConnectionError", !.statusSet = TRUE])

\* 'left-meeting' (lines 1045-1050)
OnLeftMeeting(s) ==
    UI(s, [s EXCEPT !.isConnected = FALSE, !.replicaConnected = FALSE, !.statusSet = TRUE])

(***************************************************************************)
(* Actions                                                                 *)
(***************************************************************************)
\* The buttons exist while the component is mounted and configured (line 1484).
Rendered == mounted /\ IsConfigured

\* Starts that restartConversation has still to make.
PendingRestarts ==
    cleaning[<<"leave", "restart">>] + cleaning[<<"end", "restart">>]
    + Cardinality({tm \in timers : tm.kind = "restart"})

\* The model takes no new start once MaxStarts sessions are spoken for.
StartBudget == nextReq + PendingRestarts <= MaxStarts

LoadDailyScript ==
    /\ ~dailyLoaded
    /\ dailyLoaded' = TRUE
    /\ UNCHANGED << apiKey, replicaId, personaId, mounted, isOpen, isConnected,
                    isConnecting, conversation, error, replicaConnected, callObjectRef,
                    conversationIdRef, now, timers, cleaning, nextReq, calls,
                    sess, restarts, stopHist, typeErrors, sink >>
    /\ UNCHANGED dvars
    /\ UNCHANGED mvars

\* The toggle button, disabled while connecting (lines 1505-1507).
HandleOpen ==
    /\ Rendered /\ ~isOpen /\ ~isConnecting
    /\ (conversation = Null /\ ~isConnected /\ CheckLibraryPersona) => StartBudget
    /\ Commit(HandleOpenHandler(Cur))

\* The X button (line 1582).
ClosePanel ==
    /\ Rendered /\ isOpen
    /\ Commit([Cur EXCEPT !.isOpen = FALSE])

\* The Start Assistant button (lines 1654-1666).
StartAssistantClick ==
    /\ Rendered /\ isOpen /\ error = "none" /\ ~isConnecting /\ ~isConnected
    /\ CheckLibraryPersona => StartBudget
    /\ Commit(InitializeAIAssistant(Cur))

\* The Retry button, shown while an error is set (lines 1590-1603).
RetryClick ==
    /\ Rendered /\ isOpen /\ error # "none"
    /\ CheckLibraryPersona => StartBudget
    /\ Commit(RetryHandler(Cur))

\* The restart button of the header (lines 1562-1568).
RestartClick ==
    /\ Rendered /\ isOpen
    /\ restarts < MaxRestarts
    /\ CheckLibraryPersona => StartBudget
    /\ Commit(RestartConversation([Cur EXCEPT !.restarts = @ + 1]))

\* The unmount effect (lines 820-824).
Unmount ==
    /\ mounted
    /\ Commit(CleanupConversation([Cur EXCEPT !.mounted = FALSE], "unmount"))

CreateDone ==
    \E c \in Sessions, ok \in BOOLEAN :
        /\ InitAt(Cur, c) = "create"
        /\ Commit(CreateSettled(Cur, c, ok))

JoinDone ==
    \E c \in Sessions, ok \in BOOLEAN :
        /\ InitAt(Cur, c) = "join"
        /\ Commit(JoinSettled(Cur, c, ok))

LeaveDone ==
    \E origin \in Origins, ok \in BOOLEAN :
        /\ cleaning[<<"leave", origin>>] > 0
        /\ Commit(LeaveSettled(Cur, origin, ok))

EndDone ==
    \E origin \in Origins, ok \in BOOLEAN :
        /\ cleaning[<<"end", origin>>] > 0
        /\ Commit(EndSettled(Cur, origin, ok))

\* A timer whose time has come, the earliest first.
Due(tm) == tm \in timers /\ tm.due <= now /\ \A u \in timers : tm.due <= u.due

\* Time passes up to the next due time.
Tick ==
    /\ timers # {}
    /\ \A tm \in timers : tm.due > now
    /\ \E tm \in timers :
           /\ \A u \in timers : tm.due <= u.due
           /\ Commit([Cur EXCEPT !.now = tm.due])

FireWrapUp ==
    \E tm \in timers :
        /\ Due(tm) /\ tm.kind = "wrap"
        /\ Commit(WrapUpCallback([Cur EXCEPT !.timers = @ \ {tm}]))

FireFinalWarning ==
    \E tm \in timers :
        /\ Due(tm) /\ tm.kind = "final"
        /\ Commit(FinalWarningCallback([Cur EXCEPT !.timers = @ \ {tm}]))

FireHardTermination ==
    \E tm \in timers :
        /\ Due(tm) /\ tm.kind = "term"
        /\ Commit(TerminationCallback([Cur EXCEPT !.timers = @ \ {tm}]))

FireRestart ==
    \E tm \in timers :
        /\ Due(tm) /\ tm.kind = "restart"
        /\ Commit(InitializeAIAssistant([Cur EXCEPT !.timers = @ \ {tm}]))

ParticipantEvent ==
    \E c \in Live(Cur), hasAV \in BOOLEAN :
        Commit(UpdateReplicaVideo(Cur, hasAV))

ParticipantLeftEvent ==
    \E c \in Live(Cur) : Commit(OnParticipantLeft(Cur))

ErrorEvent ==
    \E c \in Live(Cur) : Commit(OnError(Cur))

LeftMeetingEvent ==
    \E c \in Live(Cur) : Commit(OnLeftMeeting(Cur))

Next ==
    \/ LoadDailyScript
    \/ HandleOpen
    \/ ClosePanel
    \/ StartAssistantClick
    \/ RetryClick
    \/ RestartClick
    \/ Unmount
    \/ CreateDone
    \/ JoinDone
    \/ LeaveDone
    \/ EndDone
    \/ Tick
    \/ FireWrapUp
    \/ FireFinalWarning
    \/ FireHardTermination
    \/ FireRestart
    \/ ParticipantEvent
    \/ ParticipantLeftEvent
    \/ ErrorEvent
    \/ LeftMeetingEvent

Spec == Init /\ [][Next]_vars

(***************************************************************************)
(* extractToolCallFromData (lines 1211-1271)                               *)
(***************************************************************************)
\* The canonical tool call, as the object literal of lines 1216-1219.
ToolCall(fn, args) == Obj([function_name |-> fn, arguments |-> args])

Nullish(v) == v.t \in {"undefined", "null"}

\* Array.isArray(v) && v.length > 0
NonEmptyArray(v) == v.t = "array" /\ Len(v.q) > 0

\* Arguments taken as they come, text or object.
ParsedArguments_Raw(a) == a

\* typeof a === 'string' ? JSON.parse(a) : a   (lines 1236-1238, 1264-1266)
ParsedArguments(a) == IF a.t = "string" THEN JSONParse(a.s) ELSE a

\* The object built from a function descriptor (lines 1234-1239, 1262-1267).
FromFunction(fn) ==
    LET args == ParsedArguments(Get(fn, "arguments"))
    IN  IF args = Thrown THEN Thrown ELSE ToolCall(Get(fn, "name"), args)

\* Lines 1244-1246: the event or message type tags of a conversation event.
ConversationTagged(data) ==
    \/ IsStr(Get(data, "event_type"), "conversation.toolcall")
    \/ IsStr(Get(data, "event_type"), "conversation.llm.function_call")
    \/ IsStr(Get(data, "message_type"), "conversation")

\* Returns the tool call, null, or throws (reading a property of null or
\* undefined, JSON.parse of a text that is not JSON).
RECURSIVE ExtractToolCallFromData(_)
ExtractToolCallFromData(data) ==
    LET properties == Get(data, "properties")
        toolCalls == Get(data, "tool_calls")
        toolCall == toolCalls.q[1]
        choices == Get(data, "choices")
        choice == choices.q[1]
        fn == Get(data, "function")
        bare == IF Truthy(fn) /\ Truthy(Get(fn, "name")) THEN FromFunction(fn) ELSE JSNull
        fromChoices ==
            IF ~NonEmptyArray(choices) THEN bare
            ELSE IF Nullish(choice) THEN Thrown
            ELSE IF Truthy(Get(choice, "message"))
                    /\ Truthy(Get(Get(choice, "message"), "tool_calls"))
            THEN ExtractToolCallFromData(
                     Obj([tool_calls |-> Get(Get(choice, "message"), "tool_calls")]))
            ELSE bare
        fromTagged ==
            IF ConversationTagged(data) /\ Truthy(properties)
            THEN ExtractToolCallFromData(properties)
            ELSE fromChoices
        fromToolCalls ==
            IF ~NonEmptyArray(toolCalls) THEN fromTagged
            ELSE IF Nullish(toolCall) THEN Thrown
            ELSE IF Truthy(Get(toolCall, "function"))
            THEN FromFunction(Get(toolCall, "function"))
            ELSE fromTagged
    IN  IF ~Truthy(data) THEN JSNull
        ELSE IF Truthy(Get(data, "function_name")) /\ Truthy(Get(data, "arguments"))
        THEN ToolCall(Get(data, "function_name"), Get(data, "arguments"))
        ELSE IF Truthy(properties) /\ Truthy(Get(properties, "function_name"))
        THEN ToolCall(Get(properties, "function_name"), Get(properties, "arguments"))
        ELSE fromToolCalls

(***************************************************************************)
(* executeToolCall (lines 1273-1344) and getRecommendedBooks (1426-1438)   *)
(*                                                                         *)
(* A book is a record of title, author, subject, difficulty_level (strings)*)
(* target_age_min, target_age_max (integers) and description (a string     *)
(* value, or undefined).  The handlers work on the dispatcher's state as   *)
(* one record.                                                             *)
(***************************************************************************)
DCur ==
    [ lastToolCall |-> lastToolCall, toolCallHistory |-> toolCallHistory,
      dispatchStatus |-> dispatchStatus, filterChanges |-> filterChanges,
      recommendations |-> recommendations, executed |-> executed,
      naturalResponseCount |-> naturalResponseCount,
      restrictedResponseCount |-> restrictedResponseCount,
      statusSet |-> FALSE, uncaught |-> FALSE ]

DCommit(d) ==
    /\ lastToolCall' = d.lastToolCall
    /\ toolCallHistory' = d.toolCallHistory
    /\ dispatchStatus' = d.dispatchStatus
    /\ filterChanges' = d.filterChanges
    /\ recommendations' = d.recommendations
    /\ executed' = d.executed
    /\ naturalResponseCount' = d.naturalResponseCount
    /\ restrictedResponseCount' = d.restrictedResponseCount
    /\ statusSet' = d.statusSet
    /\ uncaught' = d.uncaught

\* a < b: a comparison that leaves the bound out.
LessOrEqual_Strict(a, b) == b.t = "number" /\ a < b.n

\* a <= b where a is a number: false when b converts to NaN.
LessOrEqual(a, b) == b.t = "number" /\ a <= b.n
GreaterOrEqual(a, b) == b.t = "number" /\ a >= b.n

\* field?.toLowerCase().includes(term), for a field that may be undefined
FieldIncludes(field, term) == field.t = "string" /\ Includes(ToLowerCase(field.s), term)

\* The callback of books.filter in getRecommendedBooks (lines 1429-1434).
RecommendKeeps(book, lowerPrefs) ==
    \/ Includes(ToLowerCase(book.title), lowerPrefs)
    \/ FieldIncludes(book.description, lowerPrefs)
    \/ Includes(ToLowerCase(book.subject), lowerPrefs)
    \/ Includes(ToLowerCase(book.author), lowerPrefs)

\* Recommendations without the limit of six.
GetRecommendedBooks_All(preferences) ==
    IF preferences.t # "string" THEN Thrown
    ELSE Arr(SelectSeq(books, LAMBDA book : RecommendKeeps(book, ToLowerCase(preferences.s))))

\* getRecommendedBooks: throws when preferences has no toLowerCase.
GetRecommendedBooks(preferences) ==
    IF preferences.t # "string" THEN Thrown
    ELSE LET lowerPrefs == ToLowerCase(preferences.s)
             filtered == SelectSeq(books, LAMBDA book : RecommendKeeps(book, lowerPrefs))
         IN  Arr(SubSeq(filtered, 1, IF Len(filtered) < 6 THEN Len(filtered) ELSE 6))

\* A search that looks at the title and the author only.
SearchKeeps_NoDescription(book, lowerTerm) ==
    \/ Includes(ToLowerCase(book.title), lowerTerm)
    \/ Includes(ToLowerCase(book.author), lowerTerm)

\* The callback of books.filter in the search_books case (lines 1306-1310).
SearchKeeps(book, lowerTerm) ==
    \/ Includes(ToLowerCase(book.title), lowerTerm)
    \/ FieldIncludes(book.description, lowerTerm)
    \/ Includes(ToLowerCase(book.author), lowerTerm)

\* A subject filter that compares without regard to case.
SubjectBooks_IgnoreCase(subject) ==
    {i \in 1..Len(books) :
        \/ IsStr(subject, "ALL")
        \/ subject.t = "string" /\ ToLowerCase(subject.s) = ToLowerCase(books[i].subject)}

\* The books each filter of executeToolCall keeps, as their positions in the
\* catalog (lines 1286-1288, 1296-1298, 1306-1310, 1318-1320).
SubjectBooks(subject) ==
    {i \in 1..Len(books) : IsStr(subject, "ALL") \/ IsStr(subject, books[i].subject)}

DifficultyBooks(difficulty) ==
    {i \in 1..Len(books) :
        IsStr(difficulty, "ALL") \/ IsStr(difficulty, books[i].difficulty_level)}

SearchResults(searchTerm) ==
    {i \in 1..Len(books) : SearchKeeps(books[i], ToLowerCase(searchTerm.s))}

AgeBooks(minAge, maxAge) ==
    {i \in 1..Len(books) : /\ LessOrEqual(books[i].target_age_min, maxAge)
                           /\ GreaterOrEqual(books[i].target_age_max, minAge)}

\* A slice that keeps everything.
Slice_All(q, n) == IF n >= 0 THEN q ELSE q

\* q.slice(-n): the last n entries of q, all of q when it has fewer.
Slice(q, n) == SubSeq(q, IF Len(q) > n THEN Len(q) - n + 1 ELSE 1, Len(q))

\* The rendered call of line 1278, as the name and the arguments it shows.
ToolCallString(fn, args) == << fn, args >>

\* The catch of executeToolCall (lines 1340-1343).
DispatchError(d) == [d EXCEPT !.dispatchStatus = Status("ErrorExecutingAction", 0),
                     !.statusSet = TRUE]

\* A switch that takes the name without regard to case.
SwitchCase_IgnoreCase(fn, name) == fn.t = "string" /\ ToLowerCase(fn.s) = name

\* Lines 1283-1284: switch (function_name) takes the case strictly equal to it.
SwitchCase(fn, name) == IsStr(fn, name)

ExecuteToolCall(d, toolCallData) ==
    LET fn == Get(toolCallData, "function_name")
        args == Get(toolCallData, "arguments")
        shown == ToolCallString(fn, args)
        d1 == [d EXCEPT !.lastToolCall = shown,
                        !.toolCallHistory = Slice(@, 4) \o << shown >>,
                        !.executed = Append(@, toolCallData)]
        subject == Get(args, "subject")
        difficulty == Get(args, "difficulty")
        searchTerm == Get(args, "searchTerm")
        minAge == Get(args, "minAge")
        maxAge == Get(args, "maxAge")
        recommended == GetRecommendedBooks(Get(args, "preferences"))
    IN  IF SwitchCase(fn, "filter_books_by_subject")
        THEN IF Nullish(args) THEN DispatchError(d1)
             ELSE [d1 EXCEPT
                     !.filterChanges = Append(@, Obj([selectedSubject |-> subject])),
                     !.dispatchStatus = Status("Showing", Cardinality(SubjectBooks(subject))),
                     !.statusSet = TRUE]
        ELSE IF SwitchCase(fn, "filter_books_by_difficulty")
        THEN IF Nullish(args) THEN DispatchError(d1)
             ELSE [d1 EXCEPT
                     !.filterChanges = Append(@, Obj([selectedDifficulty |-> difficulty])),
                     !.dispatchStatus = Status("Showing", Cardinality(DifficultyBooks(difficulty))),
                     !.statusSet = TRUE]
        ELSE IF SwitchCase(fn, "search_books")
        THEN IF Nullish(args) \/ (Len(books) > 0 /\ searchTerm.t # "string")
             THEN DispatchError(d1)
             ELSE [d1 EXCEPT
                     !.filterChanges = Append(@, Obj([searchTerm |-> searchTerm])),
                     !.dispatchStatus = Status("Found", Cardinality(SearchResults(searchTerm))),
                     !.statusSet = TRUE]
        ELSE IF SwitchCase(fn, "filter_books_by_age")
        THEN IF Nullish(args) THEN DispatchError(d1)
             ELSE [d1 EXCEPT
                     !.filterChanges = Append(@,
                         Obj([ageRange |-> Obj([min |-> minAge, max |-> maxAge])])),
                     !.dispatchStatus = Status("Showing", Cardinality(AgeBooks(minAge, maxAge))),
                     !.statusSet = TRUE]
        ELSE IF SwitchCase(fn, "recommend_books")
        THEN IF Nullish(args) \/ recommended = Thrown THEN DispatchError(d1)
             ELSE [d1 EXCEPT
                     !.recommendations = Append(@, recommended.q),
                     !.dispatchStatus = Status("FoundRecommendations", Len(recommended.q)),
                     !.statusSet = TRUE]
        ELSE [d1 EXCEPT !.dispatchStatus = Status("UnknownAction", 0),
                     !.statusSet = TRUE]

(***************************************************************************)
(* handleTavusEvent (lines 1093-1186) and tryManualToolCall (1188-1209)    *)
(***************************************************************************)
\* An utterance test that does not look at the role.
IsUtterance_AnyRole(event, role) ==
    LET data == Get(event, "data")
    IN  /\ Truthy(data)
        /\ IsStr(Get(data, "event_type"), "conversation.utterance")
        /\ Truthy(Get(data, "properties"))
        /\ role = role

\* Lines 1102-1103 and 1174-1175: a conversation utterance of the given role.
IsUtterance(event, role) ==
    LET data == Get(event, "data")
    IN  /\ Truthy(data)
        /\ IsStr(Get(data, "event_type"), "conversation.utterance")
        /\ Truthy(Get(data, "properties"))
        /\ IsStr(Get(Get(data, "properties"), "role"), role)

Speech(event) == Get(Get(Get(event, "data"), "properties"), "speech")

\* Lines 1104-1131: the counters and the status of a replica's utterance.
TrackReplicaResponse(d, replicaResponse) ==
    LET mentionsExternalBooks ==
            \/ Includes(replicaResponse, "Peter Rabbit")
            \/ Includes(replicaResponse, "Runaway Bunny")
            \/ Includes(replicaResponse, "Tale of")
            \/ Includes(replicaResponse, "classic story")
            \/ Includes(replicaResponse, "famous book")
        isNatural ==
            /\ ~Includes(replicaResponse, "filter_books_by_")
            /\ ~Includes(replicaResponse, "search_books")
            /\ ~Includes(replicaResponse, "recommend_books")
            /\ ~Includes(replicaResponse, "{")
            /\ ~Includes(replicaResponse, "}")
    IN  IF isNatural /\ ~mentionsExternalBooks
        THEN [d EXCEPT !.naturalResponseCount = @ + 1, !.restrictedResponseCount = @ + 1]
        ELSE IF mentionsExternalBooks
        THEN [d EXCEPT !.dispatchStatus = Status("ExternalBooks", 0),
                     !.statusSet = TRUE]
        ELSE [d EXCEPT !.dispatchStatus = Status("FunctionNames", 0),
                     !.statusSet = TRUE]

TryManualToolCall_EveryKeyword(d, userSpeech) ==
    LET speech == ToLowerCase(userSpeech.s)
        Filter(subject) ==
            ToolCall(Str("filter_books_by_subject"), Obj([subject |-> Str(subject)]))
        d1 == IF Includes(speech, "story") \/ Includes(speech, "stories")
              THEN ExecuteToolCall(d, Filter("STORY")) ELSE d
        d2 == IF Includes(speech, "science")
              THEN ExecuteToolCall(d1, Filter("SCIENCE")) ELSE d1
        d3 == IF Includes(speech, "math")
              THEN ExecuteToolCall(d2, Filter("MATHS")) ELSE d2
        d4 == IF Includes(speech, "animal") \/ Includes(speech, "rabbit")
              THEN ExecuteToolCall(d3, ToolCall(Str("search_books"),
                                                Obj([searchTerm |-> Str("animals")])))
              ELSE d3
    IN  IF userSpeech.t # "string" THEN d ELSE d4

\* tryManualToolCall: the tool call the user's speech stands for, if any.
TryManualToolCall(d, userSpeech) ==
    LET speech == ToLowerCase(userSpeech.s)
        Filter(subject) ==
            ToolCall(Str("filter_books_by_subject"), Obj([subject |-> Str(subject)]))
    IN  IF userSpeech.t # "string" THEN d
        ELSE IF Includes(speech, "story") \/ Includes(speech, "stories")
        THEN ExecuteToolCall(d, Filter("STORY"))
        ELSE IF Includes(speech, "science")
        THEN ExecuteToolCall(d, Filter("SCIENCE"))
        ELSE IF Includes(speech, "math")
        THEN ExecuteToolCall(d, Filter("MATHS"))
        ELSE IF Includes(speech, "animal") \/ Includes(speech, "rabbit")
        THEN ExecuteToolCall(d, ToolCall(Str("search_books"),
                                         Obj([searchTerm |-> Str("animals")])))
        ELSE IF Includes(speech, "easy") \/ Includes(speech, "beginner")
        THEN ExecuteToolCall(d, ToolCall(Str("filter_books_by_difficulty"),
                                         Obj([difficulty |-> Str("beginner")])))
        ELSE d

\* One of the methods of lines 1139-1156: probe v unless a tool call is there.
Probe(toolCallData, cond, v) ==
    IF toolCallData = Thrown \/ Truthy(toolCallData) \/ ~cond
    THEN toolCallData
    ELSE ExtractToolCallFromData(v)

\* Method 5 (lines 1159-1165); includes throws on a type that is no string.
ProbeTagged(toolCallData, data) ==
    LET eventType == Get(data, "event_type")
    IN  IF toolCallData = Thrown \/ Truthy(toolCallData)
           \/ ~(Truthy(data) /\ Truthy(eventType))
        THEN toolCallData
        ELSE IF eventType.t # "string" THEN Thrown
        ELSE IF \/ Includes(eventType.s, "tool")
                \/ Includes(eventType.s, "function")
                \/ eventType.s = "conversation.llm.function_call"
        THEN ExtractToolCallFromData(data)
        ELSE toolCallData

\* Lines 1134-1165: the tool call of an event, null, or Thrown.
ToolCallData(event) ==
    LET data == Get(event, "data")
        m1 == Probe(JSNull, Truthy(data), data)
        m2 == Probe(m1, TRUE, event)
        m3 == Probe(m2, Truthy(Get(event, "payload")), Get(event, "payload"))
        m4 == Probe(m3, Truthy(Get(event, "message")), Get(event, "message"))
    IN  ProbeTagged(m4, data)

HandleTavusEvent_AlwaysFallback(d, event) ==
    LET tracked == IF IsUtterance(event, "replica") /\ Speech(event).t = "string"
                   THEN TrackReplicaResponse(d, Speech(event).s)
                   ELSE d
        toolCallData == ToolCallData(event)
        called == IF toolCallData # Thrown /\ Truthy(toolCallData)
                  THEN ExecuteToolCall(tracked, toolCallData)
                  ELSE tracked
    IN  IF IsUtterance(event, "user")
        THEN TryManualToolCall(called, Speech(event))
        ELSE called

\* handleTavusEvent.  A replica utterance without a speech text throws before
\* the try block, which ends the handler; what the try block throws is caught.
HandleTavusEvent(d, event) ==
    LET tracked == IF IsUtterance(event, "replica")
                   THEN TrackReplicaResponse(d, Speech(event).s)
                   ELSE d
        toolCallData == ToolCallData(event)
    IN  IF IsUtterance(event, "replica") /\ Speech(event).t # "string"
        THEN [d EXCEPT !.uncaught = TRUE]
        ELSE IF toolCallData = Thrown
        THEN tracked
        ELSE IF Truthy(toolCallData)
        THEN ExecuteToolCall(tracked, toolCallData)
        ELSE IF IsUtterance(event, "user")
        THEN TryManualToolCall(tracked, Speech(event))
        ELSE tracked

(***************************************************************************)
(* The data listeners of setupEventListeners (lines 1055-1090)             *)
(***************************************************************************)
\* A wildcard listener that forwards every event it sees.
WildcardForwards_Any(eventName) == eventName = eventName

\* Lines 1082-1086: the names the wildcard listener forwards.
WildcardForwards(eventName) ==
    \/ Includes(eventName, "tool")
    \/ Includes(eventName, "function")
    \/ Includes(eventName, "call")
    \/ Includes(eventName, "llm")
    \/ Includes(eventName, "ai")

\* The listeners that pass an event of this name to handleTavusEvent, in the
\* order they were registered; wildcard: the emitter serves a '*' listener.
DataListeners(eventName, wildcard) ==
    (IF eventName = "app-message" THEN << "app-message" >> ELSE << >>)
    \o (IF eventName = "receive-data" THEN << "receive-data" >> ELSE << >>)
    \o (IF wildcard /\ WildcardForwards(eventName) THEN << "*" >> ELSE << >>)

RECURSIVE RunListeners(_, _, _)
RunListeners(d, n, event) ==
    IF n = 0 THEN d ELSE RunListeners(HandleTavusEvent(d, event), n - 1, event)

\* One raw event of the transport, through every listener it reaches.
OnRawEvent(d, eventName, event, wildcard) ==
    RunListeners([d EXCEPT !.executed = << >>],
                 Len(DataListeners(eventName, wildcard)), event)

(***************************************************************************)
(* The event pipeline on its own: a joined session whose transport         *)
(* delivers data events, each through the listeners of its name.           *)
(***************************************************************************)
\* A session that joined at time 0; ready: its replica has arrived with both
\* tracks playable and plays in the video element.
Joined(ready) ==
    /\ apiKey = TRUE /\ replicaId = TRUE /\ personaId = TRUE /\ dailyLoaded = TRUE
    /\ mounted = TRUE
    /\ isOpen = TRUE
    /\ isConnected = TRUE
    /\ isConnecting = FALSE
    /\ conversation = 1
    /\ error = "none"
    /\ replicaConnected = ready
    /\ participants =
          (IF ready
           THEN LocalOnly \o << [id |-> "replica", tracks |-> Track("playable", "playable")] >>
           ELSE LocalOnly)
    /\ sink = (IF ready THEN [video |-> "replica", audio |-> "replica"] ELSE NoStream)
    /\ callObjectRef = 1
    /\ conversationIdRef = 1
    /\ now = 0
    /\ timers = BudgetTimers(1, 0)
    /\ cleaning = [k \in CleanupAwaits \X Origins |-> 0]
    /\ nextReq = 2
    /\ calls = [c \in Sessions |-> IF c = 1 THEN [NoCall EXCEPT !.made = TRUE] ELSE NoCall]
    /\ sess = [c \in Sessions |->
                  IF c = 1 THEN [create |-> "ok", start |-> "joined", endCalls |-> 0]
                  ELSE NoSess]
    /\ restarts = 0
    /\ stopHist = NoStop
    /\ typeErrors = FALSE

SessionJoined == Joined(TRUE)

\* Sample books.
ScienceBook ==
    [ title |-> "Space Science", author |-> "Ann Lee", subject |-> "SCIENCE",
      difficulty_level |-> "beginner", target_age_min |-> 5, target_age_max |-> 8,
      description |-> Str("Stars and planets") ]
StoryBook ==
    [ title |-> "The Dragon Tale", author |-> "Bo Chen", subject |-> "STORY",
      difficulty_level |-> "advanced", target_age_min |-> 9, target_age_max |-> 12,
      description |-> Undefined ]
MathsBook ==
    [ title |-> "Counting", author |-> "Cy Dee", subject |-> "MATHS",
      difficulty_level |-> "beginner", target_age_min |-> 3, target_age_max |-> 5,
      description |-> Str("Fun with ANIMALS") ]
LowerCaseBook ==
    [ title |-> "Rocks", author |-> "Dragan Eve", subject |-> "science",
      difficulty_level |-> "Beginner", target_age_min |-> 8, target_age_max |-> 9,
      description |-> Undefined ]

BookKinds == {ScienceBook, StoryBook, MathsBook, LowerCaseBook}

\* The wire shapes of one tool call: its arguments as an object, and as text
\* where the shape carries a function descriptor.
FunctionDescriptors(fn, args, text) ==
    { Obj([name |-> fn, arguments |-> a]) : a \in {args, text} }

DirectShape(fn, args) == Obj([function_name |-> fn, arguments |-> args])
NestedShape(fn, args) == Obj([properties |-> DirectShape(fn, args)])
ArrayShapes(fn, args, text) ==
    { Obj([tool_calls |-> Arr(<< Obj([function |-> f]) >>)]) :
        f \in FunctionDescriptors(fn, args, text) }
BareShapes(fn, args, text) ==
    { Obj([function |-> f]) : f \in FunctionDescriptors(fn, args, text) }

TaggedShapes(fn, args, text) ==
    { Obj([event_type |-> Str(tag), properties |-> inner]) :
        tag \in {"conversation.toolcall", "conversation.llm.function_call"},
        inner \in {DirectShape(fn, args)} \cup BareShapes(fn, args, text) }
ChoiceShapes(fn, args, text) ==
    { Obj([choices |-> Arr(<< Obj([message |-> Obj([tool_calls |-> Get(s, "tool_calls")])]) >>)]) :
        s \in ArrayShapes(fn, args, text) }
WireShapes(fn, args, text) ==
    {DirectShape(fn, args), NestedShape(fn, args)}
    \cup ArrayShapes(fn, args, text) \cup TaggedShapes(fn, args, text)
    \cup ChoiceShapes(fn, args, text) \cup BareShapes(fn, args, text)

\* The places of an event where handleTavusEvent looks for the payload.
Wrappings(p) ==
    { Obj([data |-> p]), p, Obj([payload |-> p]), Obj([message |-> p]) }

ScienceArgs == Obj([subject |-> Str("SCIENCE")])
ScienceText == Str("{\"subject\":\"SCIENCE\"}")
ScienceCalls ==
    UNION { Wrappings(p) :
              p \in WireShapes(Str("filter_books_by_subject"), ScienceArgs, ScienceText) }

Utterance(role, speech) ==
    Obj([data |-> Obj([message_type |-> Str("conversation"),
                       event_type |-> Str("conversation.utterance"),
                       properties |-> Obj([role |-> Str(role), speech |-> speech])])])

Utterances ==
    { Utterance(role, speech) :
        role \in {"user", "replica"},
        speech \in { Str("Show me SCIENCE books"), Str("hello there"),
                     Str("I like rabbit stories"), Str("search_books for you"),
                     Str("a famous book"), Str("any animal books"),
                     Str("easy math"), Undefined } }

\* Events that carry no tool call in any of the shapes.
Unmatched ==
    { Obj([data |-> Obj([event_type |-> Str("conversation.respond")])]),
      Obj([data |-> Obj([text |-> Str("filter_books_by_subject")])]),
      Obj([data |-> Obj([function_name |-> Str("filter_books_by_subject")])]),
      Obj([data |-> Obj([tool_calls |-> Arr(<< >>)])]),
      Obj([data |-> Obj([choices |-> Arr(<< Obj([text |-> Str("science")]) >>)])]),
      Obj([data |-> Obj([function |-> Obj([arguments |-> ScienceArgs])])]),
      Obj([data |-> Obj([event_type |-> Num(7)])]),
      Obj([data |-> Obj([event_type |-> Str("conversation.toolcall")])]),
      Obj([fromId |-> Str("replica")]) }

\* Events whose call is broken: no first call, arguments that do not parse,
\* a name the dispatcher does not know.
BrokenCalls ==
    { Obj([data |-> Obj([tool_calls |-> Arr(<< JSNull >>)])]),
      Obj([data |-> Obj([function |-> Obj([name |-> Str("search_books"),
                                           arguments |-> Str("searchTerm")])])]),
      Obj([data |-> Obj([properties |-> Obj([function_name |-> Str("remove_books")])])]) }

OtherEvents == Unmatched \cup BrokenCalls

\* One call that stands under the data, payload and message fields at once.
RepeatedCall ==
    Obj([data |-> DirectShape(Str("search_books"), Obj([searchTerm |-> Str("animals")])),
         payload |-> DirectShape(Str("search_books"), Obj([searchTerm |-> Str("animals")])),
         message |-> DirectShape(Str("search_books"), Obj([searchTerm |-> Str("animals")]))])

\* A user's utterance that comes with a tool call under the payload field.
UtteranceWithCall ==
    Obj([data |-> Get(Utterance("user", Str("science please")), "data"),
         payload |-> DirectShape(Str("search_books"), Obj([searchTerm |-> Str("animals")]))])

RawEvents ==
    ScienceCalls \cup Utterances \cup OtherEvents \cup {RepeatedCall, UtteranceWithCall}

\* Names the transport may emit that no listener is registered for.
ForeignNames == {"tool-call", "llm-response", "custom"}

Deliver(eventName, event, wildcard) ==
    /\ delivered < MaxEvents
    /\ delivered' = delivered + 1
    /\ rawEvent' = [name |-> eventName, event |-> event]
    /\ handlerRuns' = Len(DataListeners(eventName, wildcard))
    /\ DCommit(OnRawEvent(DCur, eventName, event, wildcard))
    /\ UNCHANGED svars
    /\ UNCHANGED books
    /\ UNCHANGED aside

AppMessageEvent ==
    \E event \in RawEvents, wildcard \in BOOLEAN : Deliver("app-message", event, wildcard)

ReceiveDataEvent ==
    \E event \in RawEvents, wildcard \in BOOLEAN : Deliver("receive-data", event, wildcard)

ForeignEvent ==
    \E eventName \in ForeignNames, event \in RawEvents, wildcard \in BOOLEAN :
        Deliver(eventName, event, wildcard)

EventInit ==
    /\ SessionJoined
    /\ DispatcherInit
    /\ MediaInit
    /\ QuizInit
    /\ books = << ScienceBook, StoryBook, MathsBook >>

EventNext == AppMessageEvent \/ ReceiveDataEvent \/ ForeignEvent

EventSpec == EventInit /\ [][EventNext]_vars

(***************************************************************************)
(* The dispatcher on its own: executeToolCall on tool calls over a catalog.*)
(***************************************************************************)
\* The catalogs: every short one, and the long ones of two kinds of book.
RECURSIVE CatalogsOfLength(_)
CatalogsOfLength(n) ==
    IF n = 0 THEN {<< >>}
    ELSE {Append(c, b) : c \in CatalogsOfLength(n - 1), b \in BookKinds}

Catalogs ==
    UNION {CatalogsOfLength(n) : n \in 0..MaxShortCatalog}
    \cup [1..MaxCatalog -> {ScienceBook, StoryBook}]

\* Requested age ranges: below, touching, inside, and above the books' ranges.
AgeRanges == { << 0, 2 >>, << 0, 5 >>, << 6, 7 >>, << 8, 15 >>, << 13, 15 >> }

ToolCalls ==
    { ToolCall(Str("filter_books_by_subject"), a) :
        a \in { Obj([subject |-> Str(s)]) : s \in {"SCIENCE", "science", "STORY", "ALL"} }
              \cup {Obj(<< >>), Undefined} }
    \cup { ToolCall(Str("filter_books_by_difficulty"), a) :
        a \in { Obj([difficulty |-> Str(s)]) : s \in {"beginner", "Beginner", "ALL"} }
              \cup {Obj(<< >>)} }
    \cup { ToolCall(Str("search_books"), a) :
        a \in { Obj([searchTerm |-> Str(s)]) : s \in {"animals", "DRAGON", "lee", "zebra"} }
              \cup {Obj(<< >>), Undefined} }
    \cup { ToolCall(Str("filter_books_by_age"), a) :
        a \in { Obj([minAge |-> Num(r[1]), maxAge |-> Num(r[2])]) : r \in AgeRanges }
              \cup {Obj(<< >>)} }
    \cup { ToolCall(Str("recommend_books"), a) :
        a \in { Obj([preferences |-> Str(s)]) : s \in {"Science", "dragon", "e", "zebra"} }
              \cup {Obj(<< >>), Undefined} }
    \cup { ToolCall(fn, Obj(<< >>)) : fn \in {Str("remove_books"), Str("Search_Books"), Undefined} }

Dispatch ==
    \E toolCallData \in ToolCalls :
        /\ delivered < MaxDispatches
        /\ delivered' = delivered + 1
        /\ DCommit(ExecuteToolCall([DCur EXCEPT !.executed = << >>], toolCallData))
        /\ UNCHANGED << rawEvent, handlerRuns, books >>
        /\ UNCHANGED svars
        /\ UNCHANGED aside

DispatchInit ==
    /\ SessionJoined
    /\ DispatcherInit
    /\ MediaInit
    /\ QuizInit
    /\ books \in Catalogs

DispatchNext == Dispatch

DispatchSpec == DispatchInit /\ [][DispatchNext]_vars

(***************************************************************************)
(* The dispatcher over a long run of calls: a call that succeeds, one with *)
(* an unknown name and one that fails, in every order.                     *)
(***************************************************************************)
HistoryCalls ==
    { ToolCall(Str("filter_books_by_subject"), ScienceArgs),
      ToolCall(Str("remove_books"), Obj(<< >>)),
      ToolCall(Str("search_books"), Undefined) }

DispatchInRun ==
    \E toolCallData \in HistoryCalls :
        /\ delivered < MaxHistoryDispatches
        /\ delivered' = delivered + 1
        /\ DCommit(ExecuteToolCall([DCur EXCEPT !.executed = << >>], toolCallData))
        /\ UNCHANGED << rawEvent, handlerRuns, books >>
        /\ UNCHANGED svars
        /\ UNCHANGED aside

HistoryInit ==
    /\ SessionJoined
    /\ DispatcherInit
    /\ MediaInit
    /\ QuizInit
    /\ books = << ScienceBook, StoryBook, MathsBook >>

HistoryNext == DispatchInRun

HistorySpec == HistoryInit /\ [][HistoryNext]_vars

(***************************************************************************)
(* The session and the dispatcher together: a joined session that goes on  *)
(* as in the session specification while its call object delivers data     *)
(* events, from the creation of the call object until its destruction.     *)
(***************************************************************************)
LiveEvents ==
    { Obj([data |-> DirectShape(Str("filter_books_by_subject"), ScienceArgs)]),
      Utterance("replica", Str("hello there")) }

LiveDataEvent ==
    \E c \in Live(Cur), event \in LiveEvents : Deliver("app-message", event, FALSE)

LiveInit ==
    /\ SessionJoined
    /\ DispatcherInit
    /\ MediaInit
    /\ QuizInit
    /\ books = << ScienceBook, StoryBook, MathsBook >>

\* The panel stays open and mounted; the user's only click is restart.
LiveNext ==
    \/ LiveDataEvent
    \/ RestartClick
    \/ CreateDone
    \/ JoinDone
    \/ LeaveDone
    \/ EndDone
    \/ Tick
    \/ FireWrapUp
    \/ FireFinalWarning
    \/ FireHardTermination
    \/ FireRestart
    \/ ParticipantEvent
    \/ ErrorEvent

LiveSpec == LiveInit /\ [][LiveNext]_vars

(***************************************************************************)
(* The normalizer's strategies one by one, and payloads of several shapes  *)
(***************************************************************************)
\* Strategy 1, direct fields (lines 1215-1220); null when it does not apply.
DirectFields(data) ==
    IF Truthy(Get(data, "function_name")) /\ Truthy(Get(data, "arguments"))
    THEN ToolCall(Get(data, "function_name"), Get(data, "arguments"))
    ELSE JSNull

\* Strategy 2, nested properties (lines 1223-1228).
NestedProperties(data) ==
    IF Truthy(Get(data, "properties")) /\ Truthy(Get(Get(data, "properties"), "function_name"))
    THEN ToolCall(Get(Get(data, "properties"), "function_name"),
                  Get(Get(data, "properties"), "arguments"))
    ELSE JSNull

\* Strategy 3, the tool_calls array (lines 1231-1241): its first element.
FirstOfToolCalls(data) ==
    IF NonEmptyArray(Get(data, "tool_calls"))
       /\ Truthy(Get(Get(data, "tool_calls").q[1], "function"))
    THEN FromFunction(Get(Get(data, "tool_calls").q[1], "function"))
    ELSE JSNull

\* Strategy 4, the tagged wrapper (lines 1244-1250).
TaggedWrapper(data) ==
    IF ConversationTagged(data) /\ Truthy(Get(data, "properties"))
    THEN ExtractToolCallFromData(Get(data, "properties"))
    ELSE JSNull

\* Strategy 5, the choice-wrapped response (lines 1253-1258).
ChoiceWrapped(data) ==
    IF NonEmptyArray(Get(data, "choices"))
       /\ Truthy(Get(Get(data, "choices").q[1], "message"))
       /\ Truthy(Get(Get(Get(data, "choices").q[1], "message"), "tool_calls"))
    THEN ExtractToolCallFromData(
             Obj([tool_calls |-> Get(Get(Get(data, "choices").q[1], "message"), "tool_calls")]))
    ELSE JSNull

\* Strategy 6, the bare function descriptor (lines 1261-1268).
BareDescriptor(data) ==
    IF Truthy(Get(data, "function")) /\ Truthy(Get(Get(data, "function"), "name"))
    THEN FromFunction(Get(data, "function"))
    ELSE JSNull

\* The result of the first strategy, in the order of the code, that yields a
\* tool call.
FirstSuccess(data) ==
    LET results == << DirectFields(data), NestedProperties(data), FirstOfToolCalls(data),
                      TaggedWrapper(data), ChoiceWrapped(data), BareDescriptor(data) >>
        hits == {i \in 1..6 : results[i] # JSNull}
    IN  IF hits = {} THEN JSNull
        ELSE results[CHOOSE i \in hits : \A j \in hits : i <= j]

\* A function descriptor whose name tells the strategy that read it.
Named(name) == Obj([name |-> Str(name), arguments |-> ScienceArgs])

\* Payloads that carry the parts of several wire shapes at once; every part
\* is either absent or one of a few values.
OverlapPayloads ==
    LET base == { [conversation_id |-> Str("c1")] }
        direct == { [function_name |-> Str("direct"), arguments |-> ScienceArgs] }
        props == { [properties |-> Obj([function_name |-> Str("nested"),
                                        arguments |-> ScienceArgs])],
                   [properties |-> Obj([note |-> Str("x")])] }
        arrays == { [tool_calls |-> Arr(<< Obj([function |-> Named("first")]) >>)],
                   [tool_calls |-> Arr(<< Obj([function |-> Named("first")]),
                                          Obj([function |-> Named("second")]) >>)],
                   [tool_calls |-> Arr(<< Obj([id |-> Str("call_1")]) >>)] }
        tags == { [message_type |-> Str("conversation")] }
        wrapped == { [choices |-> Arr(<< Obj([message |->
                         Obj([tool_calls |-> Arr(<< Obj([function |-> Named("choice")]) >>)])]) >>)],
                     [choices |-> Arr(<< Obj([message |->
                         Obj([tool_calls |-> Arr(<< Obj([id |-> Str("call_1")]) >>)])]) >>)] }
        bare == { [function |-> Named("bare")] }
        Opt(S) == S \cup base
    IN  { Obj(a @@ b @@ c @@ d @@ e @@ f) :
              a \in Opt(direct), b \in Opt(props), c \in Opt(arrays),
              d \in Opt(tags), e \in Opt(wrapped), f \in Opt(bare) }

\* One 'app-message' whose data is such a payload.
OverlapEvent ==
    \E c \in Live(Cur), payload \in OverlapPayloads :
        /\ delivered = 0
        /\ Deliver("app-message", Obj([data |-> payload]), FALSE)

OverlapSpec == EventInit /\ [][OverlapEvent]_vars

(***************************************************************************)
(* The warnings of the time budget, with the outcome of sendAppMessage     *)
(***************************************************************************)
SendWarning_Escalates(s, ok) ==
    IF CanSend(s) /\ ~ok
    THEN CleanupConversation(UI(s, [s EXCEPT !.error = "ConnectionError"]), "timer")
    ELSE s

\* The callback of the soft and of the hard warning (lines 903-928, 931-954):
\* with a call object and a conversation id, sendAppMessage in a try whose
\* catch only logs; what the controller holds is the same either way.
SendWarning(s, ok) ==
    IF CanSend(s)
    THEN IF ok THEN s ELSE s
    ELSE s

\* How the send ended: not attempted, sent, or thrown and caught.
SendOutcome(s, ok) ==
    IF ~CanSend(s) THEN "none" ELSE IF ok THEN "sent" ELSE "failed"

WarningFires ==
    \E tm \in timers, ok \in BOOLEAN :
        /\ Due(tm) /\ tm.kind \in {"wrap", "final"}
        /\ CommitSession(SendWarning([Cur EXCEPT !.timers = @ \ {tm}], ok))
        /\ sendLog' = SendOutcome(Cur, ok)
        /\ UNCHANGED << dkept, media, statusSet, uncaught, quizModal >>

\* The session with its timers; the user's only click is restart.
BudgetNext ==
    \/ WarningFires
    \/ FireHardTermination
    \/ FireRestart
    \/ RestartClick
    \/ CreateDone
    \/ JoinDone
    \/ LeaveDone
    \/ EndDone
    \/ Tick
    \/ ErrorEvent

BudgetSpec == LiveInit /\ [][BudgetNext]_vars

(***************************************************************************)
(* The media: binding the replica's tracks, mute and volume                *)
(***************************************************************************)
Playable(p) == p.tracks.video = "playable" /\ p.tracks.audio = "playable"

HasWorkingAudioVideo_AnyParticipant(ps) ==
    \E i \in 1..Len(ps) : Playable(ps[i])

\* hasWorkingAudioVideo at the end of the loop (lines 1350-1364): some
\* participant other than 'local' has both tracks playable.
HasWorkingAudioVideo(ps) ==
    \E i \in 1..Len(ps) : ps[i].id # "local" /\ Playable(ps[i])

\* displayReplicaVideo (lines 1390-1401): a new stream of the video track alone.
DisplayReplicaVideo(stream, p) == [video |-> p.id, audio |-> "none"]

\* handleReplicaAudio (lines 1403-1424): only when the element has a stream,
\* a new stream of that stream's video tracks and the audio track.
HandleReplicaAudio(stream, p) ==
    IF stream # NoStream
    THEN [video |-> stream.video, audio |-> p.id]
    ELSE stream

\* One turn of the loop's body for the tracks (lines 1353-1381); a playable
\* track has its persistentTrack.
BindParticipant(stream, p) ==
    IF p.id = "local"
    THEN stream
    ELSE LET s1 == IF p.tracks.video = "playable"
                   THEN DisplayReplicaVideo(stream, p)
                   ELSE stream
         IN  IF p.tracks.audio = "playable"
             THEN HandleReplicaAudio(s1, p)
             ELSE s1

RECURSIVE BindTracks(_, _, _)
BindTracks(stream, ps, i) ==
    IF i > Len(ps)
    THEN stream
    ELSE BindTracks(BindParticipant(stream, ps[i]), ps, i + 1)

\* Whether the loop touched the element, and with it its muted flag.
TouchesSink(ps) ==
    \E i \in 1..Len(ps) :
        /\ ps[i].id # "local"
        /\ \/ ps[i].tracks.video = "playable"
           \/ ps[i].tracks.audio = "playable" /\ BindTracks(sink, ps, i - 1) # NoStream

\* isVolumeOn as the listeners see it: they belong to the render that started
\* the session, where the state still had its initial value (line 770).
ListenersVolumeOn == TRUE

\* The media state as one record.
MCur ==
    [ isMuted |-> isMuted, isVolumeOn |-> isVolumeOn, muting |-> muting,
      sinkMuted |-> sinkMuted, participants |-> participants ]

\* A run of a handler of the session with its media; a video element that is
\* rendered anew is not muted.
CommitMedia(s, m) ==
    /\ CommitSession(s)
    /\ statusSet' = s.statusSet
    /\ isMuted' = m.isMuted
    /\ isVolumeOn' = m.isVolumeOn
    /\ muting' = m.muting
    /\ sinkMuted' = (IF VideoShown(s) THEN m.sinkMuted ELSE FALSE)
    /\ participants' = m.participants
    /\ UNCHANGED dkept
    /\ UNCHANGED << uncaught, sendLog, quizModal >>

\* What participants() may return: the local user, then no remote participant,
\* the replica with its tracks in any state, or the replica and a guest.
TrackStates == {"playable", "loading"}
ParticipantLists ==
    LET locals == { [id |-> "local", tracks |-> Track(v, "playable")] : v \in {"off", "playable"} }
        replicas == { [id |-> "replica", tracks |-> Track(v, a)] : v, a \in TrackStates }
        guests == { [id |-> "guest", tracks |-> Track("playable", a)] : a \in TrackStates }
    IN  { << l >> : l \in locals }
          \cup { << l, r >> : l \in locals, r \in replicas }
          \cup { << l, r, g >> : l \in locals,
                                 r \in { [id |-> "replica", tracks |-> Track("playable", "playable")] },
                                 g \in guests }

\* updateReplicaVideo with its tracks (lines 1346-1388), as the
\* 'participant-joined' and 'participant-updated' listeners run it.
UpdateReplicaMedia(s, ps) ==
    LET s1 == UpdateReplicaVideo(s, HasWorkingAudioVideo(ps))
    IN  IF s.callObjectRef # Null /\ VideoShown(s)
        THEN [s1 EXCEPT !.sink = BindTracks(s.sink, ps, 1)]
        ELSE s1

ParticipantsChanged ==
    \E c \in Live(Cur), ps \in ParticipantLists :
        CommitMedia(UpdateReplicaMedia(Cur, ps),
                    [MCur EXCEPT !.participants = ps,
                                 !.sinkMuted = IF Cur.callObjectRef # Null /\ VideoShown(Cur)
                                                  /\ TouchesSink(ps)
                                               THEN ~ListenersVolumeOn
                                               ELSE @])

\* 'participant-left' of the remote participants (lines 1031-1037): the
\* element keeps its stream.
RemoteLeft ==
    \E c \in Live(Cur) :
        /\ Len(participants) > 1
        /\ CommitMedia(OnParticipantLeft(Cur),
                       [MCur EXCEPT !.participants = << participants[1] >>])

\* 'error' (lines 1039-1043)
TransportError ==
    \E c \in Live(Cur) : CommitMedia(OnError(Cur), MCur)

\* The mute and volume buttons exist while the panel shows a connected
\* session (lines 1569-1578).
ControlsShown == Rendered /\ isOpen /\ isConnected

\* toggleMute up to its await (lines 1440-1444)
ToggleMuteClick ==
    /\ ControlsShown
    /\ callObjectRef # Null /\ isConnected
    /\ Len(muting) < MaxMuteRuns
    /\ CommitMedia(Cur, [MCur EXCEPT !.muting = Append(@, ~isMuted)])

\* toggleMute after setLocalAudio settled (lines 1445-1449)
MuteSettled ==
    \E ok \in BOOLEAN :
        /\ muting # << >>
        /\ IF ok
           THEN CommitMedia(Cur, [MCur EXCEPT !.muting = Tail(@),
                                              !.isMuted = IF mounted THEN Head(muting) ELSE @])
           ELSE CommitMedia(UI(Cur, [Cur EXCEPT !.error = "MuteError"]),
                            [MCur EXCEPT !.muting = Tail(@)])

\* toggleVolume (lines 1453-1459)
ToggleVolumeClick ==
    /\ ControlsShown
    /\ CommitMedia(Cur, [MCur EXCEPT !.isVolumeOn = ~isVolumeOn,
                                     !.sinkMuted = IF VideoShown(Cur) THEN isVolumeOn ELSE @])

MediaDataEvent ==
    \E c \in Live(Cur) :
        Deliver("app-message", Obj([data |-> DirectShape(Str("filter_books_by_subject"), ScienceArgs)]), FALSE)

\* A session that has just joined: the replica has not arrived.
MediaSpecInit ==
    /\ Joined(FALSE)
    /\ DispatcherInit
    /\ MediaInit
    /\ QuizInit
    /\ books = << ScienceBook, StoryBook, MathsBook >>

MediaNext ==
    \/ ParticipantsChanged
    \/ RemoteLeft
    \/ TransportError
    \/ ToggleMuteClick
    \/ MuteSettled
    \/ ToggleVolumeClick
    \/ MediaDataEvent

MediaSpec == MediaSpecInit /\ [][MediaNext]_vars

(***************************************************************************)
(* The session state of the specification, read off the flags the way the  *)
(* render does (lines 1590-1669): an error first, then connecting, then    *)
(* connected with or without the replica, else the start screen.           *)
(***************************************************************************)
SessionState ==
    IF error # "none" THEN "Failed"
    ELSE IF isConnecting THEN "Connecting"
    ELSE IF isConnected /\ replicaConnected THEN "AgentReady"
    ELSE IF isConnected THEN "Connected"
    ELSE "Idle"

BudgetKinds == {"wrap", "final", "term"}
\* The timers that fire in this step.
Fired == timers \ timers'

(***************************************************************************)
(* QuizModal: the two questions, the spelling recognizers, the score page  *)
(***************************************************************************)
\* quiz.spelling.word, what the child may type, and what a recognizer may read.
SpellingWord == "Rabbit"
TypedAnswers == {"rabbit", "RABBIT", "rabit"}
OcrTexts == {"Rabbit!", "r a b b i t", "the rabit"}

LowerLetters ==
    {"a", "b", "c", "d", "e", "f", "g", "h", "i", "j", "k", "l", "m",
     "n", "o", "p", "q", "r", "s", "t", "u", "v", "w", "x", "y", "z"}

\* s.replace(/[^a-z]/g, '')
RECURSIVE OnlyLetters(_)
OnlyLetters(s) ==
    IF s = "" THEN ""
    ELSE (IF SubSeq(s, 1, 1) \in LowerLetters THEN SubSeq(s, 1, 1) ELSE "")
           \o OnlyLetters(SubSeq(s, 2, Len(s)))

\* text.toLowerCase().replace(/[^a-z]/g, '').includes(targetWord)
\* (lines 284-287, 297-298)
ReadsWord(text) == Includes(OnlyLetters(ToLowerCase(text)), ToLowerCase(SpellingWord))

OcrResult(text, method) == [text |-> text, method |-> method]

\* handleMultipleChoiceAnswer up to its setTimeout (lines 164-176), with the
\* button's own setSelectedMultipleChoiceAnswer (lines 488-491).
HandleMultipleChoiceAnswer(q, isCorrect) ==
    [q EXCEPT !.selectedMultipleChoiceAnswer = IF isCorrect THEN "correct" ELSE "wrong",
              !.score = IF isCorrect THEN q.score + 1 ELSE @,
              !.isTransitioning = TRUE,
              !.transitions = @ + 1]

\* The timeout of handleMultipleChoiceAnswer (lines 176-180); showSpelling
\* turning true runs getCameras (lines 81-107).
TransitionCallback(q) ==
    [q EXCEPT !.showMultipleChoice = FALSE, !.showSpelling = TRUE,
              !.isTransitioning = FALSE, !.transitions = @ - 1,
              !.camerasPending = IF q.showSpelling THEN @ ELSE TRUE]

\* getCameras after its awaits (lines 82-104).
GetCameras(q, ok) ==
    [q EXCEPT !.camerasPending = FALSE,
              !.showLivePreview = IF ok THEN TRUE ELSE @]

\* handleSpellingSubmit (lines 183-194)
HandleSpellingSubmit(q) ==
    [q EXCEPT !.finalSpellingAnswer = q.spellingAnswer,
              !.score = IF ToLowerCase(q.spellingAnswer) = ToLowerCase(SpellingWord)
                        THEN q.score + 1 ELSE @,
              !.showScore = TRUE]

\* captureImage up to its first await (lines 258-275); the score it will add
\* to is the one of the render the click came from.
CaptureImage(q, hasImage) ==
    IF ~hasImage
    THEN [q EXCEPT !.isProcessing = FALSE, !.ocrResults = << >>]
    ELSE [q EXCEPT !.isProcessing = TRUE, !.ocrResults = << >>,
                   !.showLivePreview = FALSE, !.capturedImage = TRUE,
                   !.capture = [stage |-> "tesseract", score |-> q.score, results |-> << >>]]

\* The end of captureImage (lines 321-342): the results are shown, the point
\* is given when a recognizer read the word, the score page follows.
CaptureDone(q, results, found) ==
    [q EXCEPT !.ocrResults = results,
              !.score = IF found THEN q.capture.score + 1 ELSE @,
              !.showScore = TRUE,
              !.isProcessing = FALSE,
              !.capture = NoCapture]

TesseractSettled_AlwaysGemini(q, ok, text) ==
    IF ~ok
    THEN [q EXCEPT !.ocrResults = << OcrResult("Processing Error", "tesseract") >>,
                   !.isProcessing = FALSE, !.capture = NoCapture]
    ELSE [q EXCEPT !.capture.stage = "gemini",
                   !.capture.results = << OcrResult(text, "tesseract") >>]

\* processWithTesseract settled (lines 277-319, 332-342).
TesseractSettled(q, ok, text) ==
    LET results == << OcrResult(text, "tesseract") >>
    IN  IF ~ok
        THEN [q EXCEPT !.ocrResults = << OcrResult("Processing Error", "tesseract") >>,
                       !.isProcessing = FALSE, !.capture = NoCapture]
        ELSE IF ReadsWord(text)
        THEN CaptureDone(q, results, TRUE)
        ELSE IF q.geminiKey
        THEN [q EXCEPT !.capture.stage = "gemini", !.capture.results = results]
        ELSE CaptureDone(q, Append(results,
                                   OcrResult("Gemini API key not configured", "gemini")),
                         FALSE)

\* processWithGemini settled (lines 293-309, 319-342).
GeminiSettled(q, ok, text) ==
    IF ~ok
    THEN CaptureDone(q, Append(q.capture.results, OcrResult("Gemini API Error", "gemini")),
                     FALSE)
    ELSE CaptureDone(q, Append(q.capture.results, OcrResult(text, "gemini")),
                     ReadsWord(text))

\* retakePhoto (lines 394-399)
RetakePhoto(q) ==
    [q EXCEPT !.capturedImage = FALSE, !.showLivePreview = TRUE,
              !.ocrResults = << >>, !.isProcessing = FALSE]

HandleContinue_AlwaysNext(q) ==
    [q EXCEPT !.answers = Append(@, [isCorrect |-> q.score = 2,
                                     multipleChoiceAnswer |-> q.selectedMultipleChoiceAnswer,
                                     spellingAnswer |->
                                         IF q.finalSpellingAnswer # ""
                                         THEN q.finalSpellingAnswer
                                         ELSE q.spellingAnswer]),
              !.pages = @ + 1,
              !.open = FALSE]

\* handleContinue (lines 422-441)
HandleContinue(q) ==
    [q EXCEPT !.answers = Append(@, [isCorrect |-> q.score = 2,
                                     multipleChoiceAnswer |-> q.selectedMultipleChoiceAnswer,
                                     spellingAnswer |->
                                         IF q.finalSpellingAnswer # ""
                                         THEN q.finalSpellingAnswer
                                         ELSE q.spellingAnswer]),
              !.pages = IF q.score = 2 THEN @ + 1 ELSE @,
              !.open = FALSE]

\* What the modal shows (lines 471-472, 500).
QuestionShown(q) == q.open /\ ~q.showScore /\ q.showMultipleChoice
SpellingShown(q) == q.open /\ ~q.showScore /\ ~q.showMultipleChoice /\ q.showSpelling

\* The rest of the program does not move while the modal is used.
QuizCommit(q) ==
    /\ quizModal' = q
    /\ UNCHANGED << svars, dvars, media, sendLog, statusSet, uncaught >>

OptionClick ==
    \E isCorrect \in BOOLEAN :
        /\ QuestionShown(quizModal)
        /\ quizModal.transitions < MaxTransitions
        /\ QuizCommit(HandleMultipleChoiceAnswer(quizModal, isCorrect))

TransitionFires ==
    /\ quizModal.open /\ quizModal.transitions > 0
    /\ QuizCommit(TransitionCallback(quizModal))

CamerasSettled ==
    \E ok \in BOOLEAN :
        /\ quizModal.open /\ quizModal.camerasPending
        /\ QuizCommit(GetCameras(quizModal, ok))

InputModeClick ==
    \E mode \in {"camera", "text"} :
        /\ SpellingShown(quizModal)
        /\ QuizCommit([quizModal EXCEPT !.inputMode = mode])

TypeAnswer ==
    \E text \in TypedAnswers :
        /\ SpellingShown(quizModal) /\ quizModal.inputMode = "text"
        /\ QuizCommit([quizModal EXCEPT !.spellingAnswer = text])

SpellingSubmitClick ==
    /\ SpellingShown(quizModal) /\ quizModal.inputMode = "text"
    /\ QuizCommit(HandleSpellingSubmit(quizModal))

CaptureClick ==
    \E hasImage \in BOOLEAN :
        /\ SpellingShown(quizModal) /\ quizModal.inputMode = "camera"
        /\ ~quizModal.isProcessing /\ quizModal.showLivePreview
        /\ QuizCommit(CaptureImage(quizModal, hasImage))

TesseractDone ==
    \E ok \in BOOLEAN, text \in OcrTexts :
        /\ quizModal.open /\ quizModal.capture.stage = "tesseract"
        /\ QuizCommit(TesseractSettled(quizModal, ok, text))

GeminiDone ==
    \E ok \in BOOLEAN, text \in OcrTexts :
        /\ quizModal.open /\ quizModal.capture.stage = "gemini"
        /\ QuizCommit(GeminiSettled(quizModal, ok, text))

RetakeClick ==
    /\ SpellingShown(quizModal) /\ quizModal.inputMode = "camera"
    /\ quizModal.capturedImage /\ ~quizModal.isProcessing
    /\ QuizCommit(RetakePhoto(quizModal))

ContinueClick ==
    /\ quizModal.open /\ quizModal.showScore
    /\ QuizCommit(HandleContinue(quizModal))

\* The X button (lines 460-467)
CloseClick ==
    /\ quizModal.open
    /\ QuizCommit([quizModal EXCEPT !.open = FALSE])

QuizSpecInit ==
    /\ SessionJoined
    /\ DispatcherInit
    /\ MediaInit
    /\ books = << >>
    /\ quizModal \in {QuizStart(key) : key \in BOOLEAN}

QuizNext ==
    \/ OptionClick
    \/ TransitionFires
    \/ CamerasSettled
    \/ InputModeClick
    \/ TypeAnswer
    \/ SpellingSubmitClick
    \/ CaptureClick
    \/ TesseractDone
    \/ GeminiDone
    \/ RetakeClick
    \/ ContinueClick
    \/ CloseClick

QuizSpec == QuizSpecInit /\ [][QuizNext]_vars

(***************************************************************************)
(* Claims                                                                  *)
(***************************************************************************)

\* C1: stop() is idempotent.  Once stop() has returned on a joined session,
\* and again once a second stop() in succession has returned, the controller
\* is in the terminal state (no handle, no call object, not connected, agent
\* not ready) and the provider has received exactly one termination call for
\* that session's handle.
C1_StopTwiceIdempotent ==
    (stopHist.n >= 1 /\ ~stopHist.run) =>
        /\ conversationIdRef = Null
        /\ callObjectRef = Null
        /\ mounted => (conversation = Null /\ ~isConnected /\ ~replicaConnected)
        /\ sess[stopHist.conv].endCalls = 1

\* C2: under every interleaving of the teardowns, each conversation handle
\* receives at most one provider-termination call, each call object is left
\* at most once, and no teardown dereferences the call-object reference after
\* another teardown has released it.
C2_TeardownExactlyOnce ==
    /\ \A c \in Sessions : sess[c].endCalls <= 1 /\ calls[c].leaveCalls <= 1
    /\ ~typeErrors

\* C3: when a start fails at the provider's create or at the transport's join,
\* the controller is Failed with a reason, the failed start's conversation id,
\* conversation object and call object are no longer held, and a conversation
\* that had been created has been ended at the provider.
C3_FailedStartLeavesNoHandle ==
    [][\A c \in Sessions :
          (sess[c].start = "pending" /\ sess'[c].start = "failed") =>
              /\ mounted' => (error' # "none" /\ conversation' # c)
              /\ conversationIdRef' # c
              /\ callObjectRef' # c
              /\ sess'[c].create = "ok" => sess'[c].endCalls >= 1]_vars

\* C4: with the API key, the replica id or the persona id absent, no start
\* ever calls the provider's create, creates a call object, joins the
\* transport, arms a budget timer or leaves a conversation handle.
C4_NoStartWithoutCredentials ==
    ~(apiKey /\ replicaId /\ personaId) =>
        /\ nextReq = 1
        /\ \A c \in Sessions : sess[c].create = "none" /\ ~calls[c].made
        /\ \A tm \in timers : tm.kind \notin BudgetKinds
        /\ conversationIdRef = Null /\ conversation = Null /\ callObjectRef = Null

\* C4, witness: a start was made with the persona id absent, and failed fast.
C4_Witness ==
    /\ apiKey /\ replicaId /\ ~personaId
    /\ error = "NoPersona" /\ isOpen /\ ~isConnecting

\* C5: on a session joined at T that no stop() has touched, the soft warning
\* is sent at T+45, the hard warning at T+55 and the termination happens at
\* T+60, in that order: when the hard warning is sent the soft warning is no
\* longer pending, and at the termination neither warning is pending.
ClaimedDelay(kind) ==
    CASE kind = "wrap" -> WRAP_UP_TIME
      [] kind = "final" -> FINAL_WARNING_TIME
      [] kind = "term" -> CONVERSATION_DURATION

Earlier(kind) ==
    CASE kind = "wrap" -> {}
      [] kind = "final" -> {"wrap"}
      [] kind = "term" -> {"wrap", "final"}

C5_EscalationSchedule ==
    [][\A tm \in Fired :
          ( /\ tm.kind \in BudgetKinds
            /\ conversationIdRef = tm.sess /\ callObjectRef = tm.sess
            /\ CleanupsInFlight(Cur) = {} ) =>
              /\ now = tm.at + ClaimedDelay(tm.kind)
              /\ \A u \in timers : u.sess = tm.sess => u.kind \notin Earlier(tm.kind)]_vars

\* C6: from the moment stop() begins, no budget timer of the session being
\* stopped is pending, no escalation message is sent, and no timer re-enters
\* stop().
C6_TimersCancelledWhenStopBegins ==
    [][/\ CleanupsInFlight(Cur)' # {} =>
             \A tm \in timers' : tm.kind \in BudgetKinds => tm.sess # conversationIdRef'
       /\ CleanupsInFlight(Cur) # {} =>
             \A tm \in Fired :
                 /\ tm.kind \in {"wrap", "final"} => ~CanSend(Cur)
                 /\ tm.kind = "term" => conversationIdRef = Null]_vars

\* C7: every session that joined is torn down by the time its 60-unit timer
\* has fired and the stop() it invokes has returned: its transport left, its
\* provider end requested, its handle and call object released, and the
\* controller not connected unless another session has joined since.
TermFired(c) == \A tm \in timers : ~(tm.kind = "term" /\ tm.sess = c)

TornDown(c) ==
    /\ calls[c].leaveCalls >= 1
    /\ sess[c].endCalls >= 1
    /\ conversationIdRef # c
    /\ callObjectRef # c
    /\ mounted => conversation # c
    /\ (mounted /\ \A d \in Sessions \ {c} : sess[d].start # "joined") => ~isConnected

C7_HardTerminationTearsDown ==
    \A c \in Sessions :
        (sess[c].start = "joined" /\ TermFired(c) /\ CleanupsInFlight(Cur) = {})
            => TornDown(c)

\* C8: while a provider termination issued by stop() is in flight, the
\* transport has been left and torn down, so no call object is there whose
\* event handlers could run.
C8_NoTransportEventsDuringEnd ==
    (\E o \in Origins : cleaning[<<"end", o>>] > 0) => Live(Cur) = {}

\* C9: a new conversation is requested from the provider only when no other
\* request is in flight and every conversation created before has been ended
\* and set to none, so that at most one handle is live.
C9_OneLiveHandle ==
    [][\A c \in Sessions :
          (sess[c].create = "none" /\ sess'[c].create = "req") =>
              /\ conversationIdRef = Null
              /\ mounted => conversation = Null
              /\ \A d \in Sessions :
                     /\ sess[d].create # "req"
                     /\ sess[d].create = "ok" => sess[d].endCalls >= 1]_vars

\* C10: a conversation handle is held only while the session state is
\* Connecting, Connected or AgentReady (the claim's "only if" half, which it
\* spells out: no handle is held in Idle, Ended or Failed).
C10_HandleOnlyWhileActive ==
    (mounted /\ (conversationIdRef # Null \/ conversation # Null)) =>
        SessionState \in {"Connecting", "Connected", "AgentReady"}

\* C11: the session state never moves backward among Connecting, Connected
\* and AgentReady, and Failed is absorbing: only the start that restart()
\* schedules takes the controller from Failed to Connecting, Connected or
\* AgentReady.
ActiveStates == {"Connecting", "Connected", "AgentReady"}

StateRank(st) ==
    CASE st = "Idle" -> 0
      [] st = "Connecting" -> 1
      [] st = "Connected" -> 2
      [] st = "AgentReady" -> 3
      [] OTHER -> 4

C11_MonotoneAndAbsorbing ==
    [][/\ (SessionState = "Failed" /\ SessionState' \in ActiveStates) =>
              \E tm \in Fired : tm.kind = "restart"
       /\ (SessionState \in ActiveStates /\ SessionState' \in ActiveStates) =>
              StateRank(SessionState') >= StateRank(SessionState)]_vars

(***************************************************************************)
(* The tool-call pipeline                                                  *)
(***************************************************************************)
\* C12: one raw transport event causes at most one executeToolCall
\* invocation, whichever listeners it reaches and under however many of its
\* fields the call stands.
C12_AtMostOncePerRawEvent == Len(executed) <= 1

\* An 'app-message' that carries its call under data, payload and message has
\* been delivered, and the call has run.
C12_Witness ==
    /\ rawEvent = [name |-> "app-message", event |-> RepeatedCall]
    /\ handlerRuns = 1
    /\ Len(executed) = 1

\* The replica's utterances: conversation events that are no user utterance.
ReplicaUtterances ==
    { Utterance("replica", speech) :
        speech \in { Str("Show me SCIENCE books"), Str("hello there"),
                     Str("I like rabbit stories"), Str("search_books for you"),
                     Str("a famous book"), Undefined } }

\* C13: an event that matches none of the normalizer's strategies and is no
\* user utterance never reaches executeToolCall, and changes neither the filter
\* callback's log, the recommendation callback's log, the last-call slot nor
\* the history.
C13_UnmatchedEventNeverDispatched ==
    [][rawEvent'.event \in Unmatched \cup ReplicaUtterances =>
          /\ executed' = << >>
          /\ filterChanges' = filterChanges
          /\ recommendations' = recommendations
          /\ lastToolCall' = lastToolCall
          /\ toolCallHistory' = toolCallHistory]_vars

\* After a first call was dispatched, the replica says words that would stand
\* for a call in a user's mouth; one listener handled it and the last call is
\* still the first one.
C13_Witness ==
    /\ rawEvent = [name |-> "app-message",
                   event |-> Utterance("replica", Str("Show me SCIENCE books"))]
    /\ handlerRuns = 1
    /\ executed = << >>
    /\ Len(toolCallHistory) = 1

\* C14: filter_books_by_subject with subject "SCIENCE", in each of the six
\* wire shapes and with its arguments as an object or as JSON text, is
\* normalized to one and the same tool call {function_name, arguments}.
C14_SameCanonicalToolCall ==
    (rawEvent.event \in ScienceCalls /\ handlerRuns = 1) =>
        executed = << ToolCall(Str("filter_books_by_subject"), ScienceArgs) >>

\* The call came choice-wrapped with its arguments as JSON text, and the call
\* that ran carries the arguments as an object.
C14_Witness ==
    /\ rawEvent.event \in
          { Obj([data |-> p]) :
              p \in ChoiceShapes(Str("filter_books_by_subject"), ScienceText, ScienceText) }
    /\ handlerRuns = 1
    /\ executed = << ToolCall(Str("filter_books_by_subject"), ScienceArgs) >>
    /\ filterChanges = << Obj([selectedSubject |-> Str("SCIENCE")]) >>

(***************************************************************************)
(* The dispatcher's actions                                                *)
(***************************************************************************)
\* The call that the step dispatched.
Dispatched(fn, args) == executed' = << ToolCall(Str(fn), args) >>

\* The step invoked onFilterChange once, with this argument, and did not
\* invoke onBookRecommendation.
FilterChangedOnce(filters) ==
    /\ filterChanges' = Append(filterChanges, filters)
    /\ recommendations' = recommendations

\* C15: filter_books_by_subject({subject: s}) reports the number of books
\* whose subject is exactly s (every book for ALL), invokes onFilterChange
\* once with s unchanged and does not invoke onBookRecommendation; the same
\* for filter_books_by_difficulty and the difficulty level.
C15_SubjectAndDifficultyFilter ==
    [][/\ \A s \in {"SCIENCE", "science", "STORY", "ALL"} :
             Dispatched("filter_books_by_subject", Obj([subject |-> Str(s)])) =>
                /\ dispatchStatus' =
                       Status("Showing",
                              Cardinality({i \in 1..Len(books) :
                                              s = "ALL" \/ books[i].subject = s}))
                /\ FilterChangedOnce(Obj([selectedSubject |-> Str(s)]))
       /\ \A s \in {"beginner", "Beginner", "ALL"} :
             Dispatched("filter_books_by_difficulty", Obj([difficulty |-> Str(s)])) =>
                /\ dispatchStatus' =
                       Status("Showing",
                              Cardinality({i \in 1..Len(books) :
                                              s = "ALL" \/ books[i].difficulty_level = s}))
                /\ FilterChangedOnce(Obj([selectedDifficulty |-> Str(s)]))]_vars

\* Over a catalog with two SCIENCE books and one science book, the filter for
\* SCIENCE has reported two books.
C15_Witness ==
    /\ books = << ScienceBook, LowerCaseBook, ScienceBook >>
    /\ executed = << ToolCall(Str("filter_books_by_subject"), ScienceArgs) >>
    /\ dispatchStatus = Status("Showing", 2)
    /\ filterChanges = << Obj([selectedSubject |-> Str("SCIENCE")]) >>

\* text contains p, case-insensitively.
Contains(text, p) == Includes(ToLowerCase(text), ToLowerCase(p))

\* The book matches the preference p on title, description, subject or author.
MatchesPreference(book, p) ==
    \/ Contains(book.title, p)
    \/ book.description.t = "string" /\ Contains(book.description.s, p)
    \/ Contains(book.subject, p)
    \/ Contains(book.author, p)

\* The matching books in catalog order, cut to the first six.
FirstSixMatches(p) ==
    LET matches == SelectSeq(books, LAMBDA book : MatchesPreference(book, p))
    IN  IF Len(matches) <= 6 THEN matches ELSE SubSeq(matches, 1, 6)

\* C16: recommend_books({preferences: p}) invokes onBookRecommendation, and
\* not onFilterChange, with the books whose title, description, subject or
\* author contains p case-insensitively, in catalog order, the first six of
\* them; with the empty list when no book matches.
C16_RecommendBooks ==
    [][\A p \in {"Science", "dragon", "e", "zebra"} :
          Dispatched("recommend_books", Obj([preferences |-> Str(p)])) =>
             /\ recommendations' = Append(recommendations, FirstSixMatches(p))
             /\ filterChanges' = filterChanges
             /\ dispatchStatus' = Status("FoundRecommendations", Len(FirstSixMatches(p)))]_vars

\* All seven books of the catalog match and six were recommended, the sixth
\* of them a story.
C16_Witness ==
    /\ Len(books) = MaxCatalog
    /\ books[6] = StoryBook
    /\ executed = << ToolCall(Str("recommend_books"), Obj([preferences |-> Str("e")])) >>
    /\ recommendations = << SubSeq(books, 1, 6) >>
    /\ filterChanges = << >>

\* The book matches the search term t on title, author or, if it has one,
\* description.
MatchesSearch(book, t) ==
    \/ Contains(book.title, t)
    \/ Contains(book.author, t)
    \/ book.description.t = "string" /\ Contains(book.description.s, t)

\* C17: search_books({searchTerm: t}) reports the number of books whose
\* title, author or description contains t case-insensitively, a book without
\* a description being matched on title and author, and passes the term as it
\* came to onFilterChange, once.
C17_SearchBooks ==
    [][\A t \in {"animals", "DRAGON", "lee", "zebra"} :
          Dispatched("search_books", Obj([searchTerm |-> Str(t)])) =>
             /\ dispatchStatus' =
                    Status("Found",
                           Cardinality({i \in 1..Len(books) : MatchesSearch(books[i], t)}))
             /\ FilterChangedOnce(Obj([searchTerm |-> Str(t)]))]_vars

\* A search for DRAGON found the story, which has no description, by its
\* title, next to a book that has a description; the term went on in capitals.
C17_Witness ==
    /\ books = << StoryBook, MathsBook >>
    /\ executed = << ToolCall(Str("search_books"), Obj([searchTerm |-> Str("DRAGON")])) >>
    /\ dispatchStatus = Status("Found", 1)
    /\ filterChanges = << Obj([searchTerm |-> Str("DRAGON")]) >>

\* C18: filter_books_by_age({minAge, maxAge}) reports the books whose range
\* [target_age_min, target_age_max] overlaps [minAge, maxAge], bounds
\* included, and passes {min: minAge, max: maxAge} to onFilterChange.
C18_FilterBooksByAge ==
    [][\A r \in AgeRanges :
          Dispatched("filter_books_by_age",
                     Obj([minAge |-> Num(r[1]), maxAge |-> Num(r[2])])) =>
             /\ dispatchStatus' =
                    Status("Showing",
                           Cardinality({i \in 1..Len(books) :
                                           /\ books[i].target_age_min <= r[2]
                                           /\ books[i].target_age_max >= r[1]}))
             /\ FilterChangedOnce(Obj([ageRange |->
                                         Obj([min |-> Num(r[1]), max |-> Num(r[2])])]))]_vars

\* The requested range ends at 5, where the science book's range starts: the
\* science book was counted and the story, for ages 9 to 12, was not.
C18_Witness ==
    /\ books = << ScienceBook, StoryBook >>
    /\ executed = << ToolCall(Str("filter_books_by_age"),
                              Obj([minAge |-> Num(0), maxAge |-> Num(5)])) >>
    /\ dispatchStatus = Status("Showing", 1)
    /\ filterChanges = << Obj([ageRange |-> Obj([min |-> Num(0), max |-> Num(5)])]) >>

\* Function names that are none of the five actions.
UnknownNames == {Str("remove_books"), Str("Search_Books"), Undefined}

\* C19: a tool call with a function name that is none of the five actions is
\* reported through the status only: neither onFilterChange nor
\* onBookRecommendation is invoked, and the session state, the handle and the
\* error stay as they are.
C19_UnknownFunctionIsNonFatal ==
    [][\A fn \in UnknownNames :
          executed' = << ToolCall(fn, Obj(<< >>)) >> =>
             /\ dispatchStatus' = Status("UnknownAction", 0)
             /\ filterChanges' = filterChanges
             /\ recommendations' = recommendations
             /\ SessionState' = SessionState
             /\ callObjectRef' = callObjectRef
             /\ conversation' = conversation
             /\ error' = error]_vars

\* After a filter call, a call of Search_Books, a name that differs from a
\* known one in case only, was reported as unknown; the session is still
\* ready and the one filter change is the first call's.
C19_Witness ==
    /\ executed = << ToolCall(Str("Search_Books"), Obj(<< >>)) >>
    /\ dispatchStatus = Status("UnknownAction", 0)
    /\ Len(filterChanges) = 1
    /\ Len(toolCallHistory) = 2
    /\ SessionState = "AgentReady"
    /\ callObjectRef # Null
    /\ error = "none"

\* The five actions the dispatcher knows.
KnownNames ==
    { "filter_books_by_subject", "filter_books_by_difficulty", "search_books",
      "filter_books_by_age", "recommend_books" }

\* C20: a known tool call whose arguments are missing, as a whole or in the
\* field the action reads, is caught and reported as a dispatch error: no
\* domain callback is invoked for it and the session state, the handle and the
\* error stay as they are.
C20_MalformedArgumentsCaught ==
    [][\A fn \in KnownNames, args \in {Undefined, Obj(<< >>)} :
          Dispatched(fn, args) =>
             /\ dispatchStatus' = Status("ErrorExecutingAction", 0)
             /\ filterChanges' = filterChanges
             /\ recommendations' = recommendations
             /\ SessionState' = SessionState
             /\ callObjectRef' = callObjectRef
             /\ error' = error]_vars

\* The history with one more rendered call, cut to its five most recent.
HistoryAfter(history, shown) ==
    LET all == Append(history, shown)
    IN  IF Len(all) <= 5 THEN all ELSE SubSeq(all, Len(all) - 4, Len(all))

\* C21: every dispatch, of a known call, an unknown one or a failing one,
\* appends its rendered call to the history and sets the last-call slot to
\* it; the history holds at most five entries, the most recent dispatches in
\* their order, and ends with the last call.
C21_BoundedHistory ==
    [][/\ delivered' # delivered =>
            /\ Len(executed') = 1
            /\ lastToolCall' = ToolCallString(Get(executed'[1], "function_name"),
                                              Get(executed'[1], "arguments"))
            /\ toolCallHistory' = HistoryAfter(toolCallHistory, lastToolCall')
       /\ Len(toolCallHistory') <= 5
       /\ toolCallHistory' # << >> =>
            toolCallHistory'[Len(toolCallHistory')] = lastToolCall']_vars

\* Seven calls were dispatched, the history holds five of them, and the
\* oldest one it holds differs from the last.
C21_Witness ==
    /\ delivered = MaxHistoryDispatches
    /\ Len(toolCallHistory) = 5
    /\ toolCallHistory[5] = lastToolCall
    /\ toolCallHistory[1] # lastToolCall
    /\ dispatchStatus = Status("ErrorExecutingAction", 0)

(***************************************************************************)
(* The session with its dispatcher and its media                           *)
(***************************************************************************)
\* restartConversation has run to its end in this step: it armed the timer
\* of the next start.
RestartReturns == \E tm \in timers' \ timers : tm.kind = "restart"

\* C22: restart() clears the tool-call history and the counters: when it has
\* returned, the history and the last-call slot are empty and the response
\* counters are zero.
C22_RestartClearsHistory ==
    [][RestartReturns =>
          /\ toolCallHistory' = << >>
          /\ lastToolCall' = << >>
          /\ naturalResponseCount' = 0
          /\ restrictedResponseCount' = 0]_vars

\* The cleanupConversation runs that are suspended at an await.
CleanupsRunning(c) ==
    c[<<"leave", "restart">>] + c[<<"leave", "timer">>] + c[<<"leave", "unmount">>]
    + c[<<"end", "restart">>] + c[<<"end", "timer">>] + c[<<"end", "unmount">>]

\* A cleanupConversation run has returned in this step, on a mounted
\* component, and neither another teardown nor a start is under way.
StopReturns ==
    /\ CleanupsRunning(cleaning') < CleanupsRunning(cleaning)
    /\ CleanupsRunning(cleaning') = 0
    /\ \A c \in Sessions : sess[c].start # "pending"
    /\ mounted'

\* C23: stop() ends in the terminal state also when leave() or
\* endConversation fails: when it has returned, the handle is none, the call
\* object is released, the media sink is reset and the controller is not
\* connected.
C23_StopSurvivesFailures ==
    [][StopReturns =>
          /\ conversation' = Null
          /\ conversationIdRef' = Null
          /\ callObjectRef' = Null
          /\ sink' = NoStream
          /\ ~isConnected']_vars

\* Events whose call cannot be read: the array's first call is null, the
\* arguments are text that is no JSON.
Unparseable ==
    { Obj([data |-> Obj([tool_calls |-> Arr(<< JSNull >>)])]),
      Obj([data |-> Obj([function |-> Obj([name |-> Str("search_books"),
                                           arguments |-> Str("searchTerm")])])]) }

\* C24: no fault leaves the controller: whatever the shape of a transport
\* event, handleTavusEvent returns normally; an event that cannot be parsed
\* is dropped, and the session state stays as it is.
C24_NoFaultEscapes ==
    [][delivered' # delivered =>
          /\ ~uncaught'
          /\ SessionState' = SessionState
          /\ rawEvent'.event \in Unparseable =>
                (executed' = << >> /\ filterChanges' = filterChanges
                 /\ recommendations' = recommendations)]_vars


(***************************************************************************)
(* The media                                                               *)
(***************************************************************************)
\* The participants whose tracks the element's stream holds.
Bound(stream) == {stream.video, stream.audio} \ {"none"}

\* C25: whenever the element's stream changes, every participant it is bound
\* to has both its tracks playable in the snapshot the binding was made from:
\* there is no video-only and no audio-only binding.
C25_BothTracksBeforeBinding ==
    [][sink' # sink =>
         \A id \in Bound(sink') :
             \E i \in 1..Len(participants') :
                 participants'[i].id = id /\ Playable(participants'[i])]_vars

\* C26: replicaConnected becomes true only in a step whose snapshot of the
\* participants has a participant other than 'local' with both its audio and
\* its video track playable.
C26_AgentReadyNeedsRemoteMedia ==
    [][(~replicaConnected /\ replicaConnected') =>
         \E i \in 1..Len(participants') :
             /\ participants'[i].id # "local"
             /\ participants'[i].tracks.video = "playable"
             /\ participants'[i].tracks.audio = "playable"]_vars

\* The replica is connected while the local user's tracks are both playable too.
C26_Witness ==
    /\ replicaConnected
    /\ SessionState = "AgentReady"
    /\ Playable(participants[1])
    /\ participants[1].id = "local"
    /\ sink = [video |-> "replica", audio |-> "replica"]

\* A tool call was handed to executeToolCall in this step.
DispatchedNow == delivered' # delivered /\ executed' # << >>

\* C27: every step that changes the session state, and every step that
\* dispatches a tool call, sets the connection status at least once.
C27_StatusOnEveryTransition ==
    [][(SessionState' # SessionState \/ DispatchedNow) => statusSet']_vars

\* A step of toggleMute or of toggleVolume.
ControlStep == muting' # muting \/ isMuted' # isMuted \/ isVolumeOn' # isVolumeOn

\* C28: a step of the mute or volume control leaves the session state, the
\* conversation handle, the pending timers and the tool-call history as they
\* were.
C28_ControlsAreLocal ==
    [][ControlStep =>
         /\ SessionState' = SessionState
         /\ conversation' = conversation
         /\ conversationIdRef' = conversationIdRef
         /\ timers' = timers
         /\ toolCallHistory' = toolCallHistory
         /\ lastToolCall' = lastToolCall]_vars

(***************************************************************************)
(* Late events and late timers                                             *)
(***************************************************************************)
\* stop() has begun and has not returned, or the session has failed.
Stale == CleanupsInFlight(Cur) # {} \/ SessionState = "Failed"

\* C29: a transport event that arrives while stop() is running or after the
\* session failed does nothing: a data event executes no tool call, reaches
\* no domain callback and leaves the history alone, and no participant event
\* makes the replica connected.
C29_StaleEventsAreNoOps ==
    [][Stale =>
         /\ delivered' # delivered =>
               /\ executed' = << >>
               /\ filterChanges' = filterChanges
               /\ recommendations' = recommendations
               /\ toolCallHistory' = toolCallHistory
         /\ ~(~replicaConnected /\ replicaConnected')]_vars

\* C30: a budget timer of a session that was torn down, firing while a later
\* session is the current one, does nothing to the current session: its warning is not
\* sent on the current call, and its termination starts no teardown and
\* leaves the conversation handle in place.
C30_TimersStayWithTheirSession ==
    [][\A tm \in Fired :
          (/\ tm.kind \in BudgetKinds
           /\ calls[tm.sess].destroyed
           /\ conversationIdRef # Null
           /\ tm.sess # conversationIdRef) =>
              /\ tm.kind \in {"wrap", "final"} => ~CanSend(Cur)
              /\ tm.kind = "term" =>
                    /\ cleaning' = cleaning
                    /\ conversationIdRef' = conversationIdRef]_vars

(***************************************************************************)
(* Warnings and the arming of the timers                                   *)
(***************************************************************************)
\* C31: a warning whose sendAppMessage fails changes neither the session
\* state nor the error, starts no teardown, keeps the handle and the call
\* object, and removes no timer but the one that fired: the termination
\* timer of the session stays pending.
C31_WarningsAreBestEffort ==
    [][((\E tm \in Fired : tm.kind \in {"wrap", "final"}) /\ sendLog' = "failed") =>
         /\ SessionState' = SessionState
         /\ error' = error
         /\ cleaning' = cleaning
         /\ conversationIdRef' = conversationIdRef
         /\ callObjectRef' = callObjectRef
         /\ \A tm \in timers : tm.kind = "term" => tm \in timers']_vars

\* A warning failed on a live session whose termination timer is pending.
C31_Witness ==
    /\ sendLog = "failed"
    /\ error = "none"
    /\ isConnected
    /\ \E tm \in timers : tm.kind = "term" /\ tm.sess = conversationIdRef

\* The budget timers armed in this step.
Armed == {tm \in timers' \ timers : tm.kind \in BudgetKinds}

\* C32: budget timers are armed only by the step in which a join completes
\* with success, and then all three of that session at once; a start that
\* failed at the configuration check, at create or at join has no timer.
C32_TimersArmedOnJoinOnly ==
    [][Armed # {} =>
         \E c \in Sessions :
             /\ sess[c].start = "pending"
             /\ sess'[c].start = "joined"
             /\ sess[c].create = "ok"
             /\ Armed = BudgetTimers(c, now)]_vars

\* One start failed at its join after its create succeeded, and armed no
\* timer; another start joined and its three timers are pending.
C32_Witness ==
    \E c, d \in Sessions :
        /\ sess[c].start = "failed" /\ sess[c].create = "ok"
        /\ \A tm \in timers : tm.sess # c
        /\ sess[d].start = "joined"
        /\ BudgetTimers(d, now) \subseteq timers

(***************************************************************************)
(* The order of the normalizer's strategies                                *)
(***************************************************************************)
\* C33: for a payload that carries several shapes, the tool call executed is
\* the result of the first strategy, in the fixed order, that yields one; in
\* particular a later element of a tool_calls array is never executed.
C33_FirstStrategyWins ==
    delivered = 1 =>
        LET call == FirstSuccess(Get(rawEvent.event, "data"))
        IN  /\ executed = (IF call = JSNull THEN << >> ELSE << call >>)
            /\ \A i \in 1..Len(executed) : Get(executed[i], "function_name") # Str("second")

(***************************************************************************)
(* The manual-inference fallback                                           *)
(***************************************************************************)
\* The last raw event reached handleTavusEvent, and what it carried.
Handled == handlerRuns > 0
LastEvent == rawEvent.event
Extracted == ToolCallData(LastEvent) # Thrown /\ Truthy(ToolCallData(LastEvent))
\* The last event is a user's utterance with a speech text and no tool call.
UserSaid(word) ==
    /\ Handled /\ ~Extracted
    /\ IsUtterance(LastEvent, "user")
    /\ Speech(LastEvent).t = "string"
    /\ Includes(ToLowerCase(Speech(LastEvent).s), word)
ScienceFilter == ToolCall(Str("filter_books_by_subject"), Obj([subject |-> Str("SCIENCE")]))
AnimalSearch == ToolCall(Str("search_books"), Obj([searchTerm |-> Str("animals")]))

\* C34 as stated: a user's utterance containing "science" synthesizes the
\* SCIENCE filter, and one containing "animal" or "rabbit" synthesizes
\* search_books, whatever else the utterance contains.
C34_KeywordAlwaysDecides ==
    /\ UserSaid("science") => executed = << ScienceFilter >>
    /\ (UserSaid("animal") \/ UserSaid("rabbit")) => executed = << AnimalSearch >>

\* C34: the fallback runs only for a user's utterance from which no tool
\* call was extracted: an event with a tool call executes that call alone, a
\* replica's utterance executes nothing else, and nothing is executed for any
\* other event without a tool call.  A user's utterance containing "science"
\* and neither "story" nor "stories" executes the SCIENCE filter; one
\* containing "animal" or "rabbit" and none of "story", "stories", "science",
\* "math" executes search_books.
C34_FallbackOnlyForUserUtterance ==
    Handled =>
        /\ Extracted => executed = << ToolCallData(LastEvent) >>
        /\ (~Extracted /\ ~IsUtterance(LastEvent, "user")) => executed = << >>
        /\ IsUtterance(LastEvent, "replica") =>
               executed = (IF Extracted THEN << ToolCallData(LastEvent) >> ELSE << >>)
        /\ (UserSaid("science") /\ ~UserSaid("story") /\ ~UserSaid("stories")) =>
               executed = << ScienceFilter >>
        /\ ((UserSaid("animal") \/ UserSaid("rabbit"))
            /\ ~UserSaid("story") /\ ~UserSaid("stories")
            /\ ~UserSaid("science") /\ ~UserSaid("math")) =>
               executed = << AnimalSearch >>

\* A user's utterance about science came with a tool call, and the call alone
\* was executed.
C34_Witness ==
    /\ Handled /\ Extracted
    /\ IsUtterance(LastEvent, "user")
    /\ Includes(ToLowerCase(Speech(LastEvent).s), "science")
    /\ executed = << AnimalSearch >>

\* The tool call tryManualToolCall's chain stands for: the first keyword set,
\* in the order story/stories, science, math, animal/rabbit, easy/beginner,
\* that the lowered speech contains.
SubjectFilter(subject) ==
    ToolCall(Str("filter_books_by_subject"), Obj([subject |-> Str(subject)]))
ByPriority(speech) ==
    LET has(word) == Includes(ToLowerCase(speech), word)
        hits == << has("story") \/ has("stories"), has("science"), has("math"),
                   has("animal") \/ has("rabbit"), has("easy") \/ has("beginner") >>
        synthesized == << SubjectFilter("STORY"), SubjectFilter("SCIENCE"), SubjectFilter("MATHS"),
                    AnimalSearch,
                    ToolCall(Str("filter_books_by_difficulty"),
                             Obj([difficulty |-> Str("beginner")])) >>
        first == {i \in 1..5 : hits[i] /\ \A j \in 1..(i - 1) : ~hits[j]}
    IN  [i \in first |-> synthesized[i]]

\* C35: a user's utterance without a tool call executes at most one call,
\* the one of the first keyword set in the fixed priority that the speech
\* contains, and nothing when it contains none of the keywords.
C35_OneCallByPriority ==
    (Handled /\ ~Extracted /\ ToolCallData(LastEvent) # Thrown
       /\ IsUtterance(LastEvent, "user") /\ Speech(LastEvent).t = "string") =>
        LET chosen == ByPriority(Speech(LastEvent).s)
        IN  /\ Len(executed) <= 1
            /\ DOMAIN chosen = {} => executed = << >>
            /\ \A i \in DOMAIN chosen : executed = << chosen[i] >>

\* An utterance with keywords of two sets executed the call of the earlier one.
C35_Witness ==
    /\ UserSaid("rabbit") /\ UserSaid("stories")
    /\ executed = << SubjectFilter("STORY") >>

(***************************************************************************)
(* The shape of the calls handed to the dispatcher                         *)
(***************************************************************************)
\* C36: every tool call handed to executeToolCall has a string as its
\* function name and an object as its arguments: never undefined, never a
\* text left unparsed.
C36_CanonicalToolCall ==
    \A i \in 1..Len(executed) :
        /\ Get(executed[i], "function_name").t = "string"
        /\ Get(executed[i], "arguments").t = "object"

(***************************************************************************)
(* Agent-ready and connected                                               *)
(***************************************************************************)
\* C37: in every state of a mounted controller, replicaConnected implies
\* isConnected.
C37_ReadyImpliesConnected == (mounted /\ replicaConnected) => isConnected

\* C38: in the quiz modal the score is always between 0 and 2, whatever
\* sequence of option clicks (also during the 2-second transition), typed
\* submissions and camera captures led to it.
C38_ScoreWithinQuestions == quizModal.score \in 0..2

\* A step of handleContinue: an answer is recorded.
Continues == Len(quizModal'.answers) > Len(quizModal.answers)

\* C39: handleContinue records exactly one quiz answer whose isCorrect flag
\* is (score = 2), advances to the next page if and only if the score is 2,
\* and closes the modal.
C39_ContinueRecordsAdvancesCloses ==
    [][Continues =>
          /\ Len(quizModal'.answers) = Len(quizModal.answers) + 1
          /\ quizModal'.answers[Len(quizModal'.answers)].isCorrect = (quizModal.score = 2)
          /\ quizModal'.pages = IF quizModal.score = 2 THEN quizModal.pages + 1
                                ELSE quizModal.pages
          /\ ~quizModal'.open]_vars

\* Continue was pressed on a full score: the page advanced.
C39_Witness ==
    /\ Len(quizModal.answers) = 1
    /\ quizModal.answers[1].isCorrect
    /\ quizModal.pages = 1
    /\ ~quizModal.open

GeminiEntries(results) == {i \in DOMAIN results : results[i].method = "gemini"}

WellFormedResults(results) ==
    results # << >> =>
        /\ results[1].method = "tesseract"
        /\ Cardinality(GeminiEntries(results)) <= 1
        /\ GeminiEntries(results) \subseteq {2}

\* A capture settles in this step.
CaptureEnds == quizModal.capture.stage # "none" /\ quizModal'.capture.stage = "none"

\* C40: Gemini is asked only after a Tesseract text without the word and with
\* a configured key; the result list has the Tesseract result first and at
\* most one Gemini entry; a capture raises the score only when a recognizer's
\* cleaned text contains the word; the processing flag is false after every
\* capture path.
C40_OcrPipeline ==
    [][/\ (quizModal.capture.stage # "gemini" /\ quizModal'.capture.stage = "gemini") =>
              /\ quizModal.geminiKey
              /\ quizModal.capture.stage = "tesseract"
              /\ Len(quizModal'.capture.results) = 1
              /\ ~ReadsWord(quizModal'.capture.results[1].text)
       /\ WellFormedResults(quizModal'.ocrResults)
       /\ (CaptureEnds /\ quizModal'.score # quizModal.score) =>
              \E i \in DOMAIN quizModal'.ocrResults :
                  ReadsWord(quizModal'.ocrResults[i].text)
       /\ CaptureEnds => ~quizModal'.isProcessing
       /\ quizModal'.isProcessing => quizModal'.capture.stage # "none"]_vars

\* Tesseract missed the word, Gemini read it: two results, the point given.
C40_Witness ==
    /\ Len(quizModal.ocrResults) = 2
    /\ ~ReadsWord(quizModal.ocrResults[1].text)
    /\ quizModal.ocrResults[2].method = "gemini"
    /\ ReadsWord(quizModal.ocrResults[2].text)
    /\ quizModal.score = 1
    /\ quizModal.showScore
    /\ ~quizModal.isProcessing

=============================================================================
